---- MODULE Spec2Model ----
(***************************************************************************)
(* Enemy AI of tank-battle: the grid pathfinder (AStar), the generic       *)
(* state machine (StateMachine), the squad blackboard (AIBlackboard) and   *)
(* the per-enemy controller (EnemyAI).                                     *)
(*                                                                         *)
(* Specifications:                                                         *)
(*   SpecPath  one AStar.findPath call, one loop iteration per step        *)
(*   SpecSM    one StateMachine driven through its public methods          *)
(*   SpecBB    one AIBlackboard driven through its public methods          *)
(*   Spec      the squad: enemies spawned by GameScene, each with an       *)
(*             EnemyAI registered on the shared blackboard                 *)
(* and smaller ones for single parts: SpecSimplify, SpecSolo, SpecThreat,  *)
(* SpecInfo, SpecPatrol, SpecFlank, SpecPool, SpecSteer, SpecStuck,         *)
(* SpecTarget, SpecFreeze, SpecUpdate.                                     *)
(***************************************************************************)
EXTENDS Integers, Sequences, FiniteSets, TLC

VARIABLES
  \* ---- AStar.findPath (one call) ----
  fpMap,        \* map[y][x] -> tile type
  fpStart,      \* start, world coordinates
  fpGoal,       \* goal, world coordinates
  openList,     \* sequence of path nodes
  closedList,   \* set of "x,y" keys, kept as cells
  fpResult,     \* the returned value
  fpPc,         \* "call" | "loop" | "done" | "simplified" | "idle"
  currentPath,  \* what simplifyPath returned for fpResult
  \* ---- one StateMachine and what its last method call did ----
  stateMachine, \* [states, currentState, previousState]
  smCalls,      \* the handlers the last call ran, in order
  smOutcome,    \* how the last call ended: "true" | "false" | "void" | "throw"
  smWarned,     \* the last call wrote a console warning
  smOp,         \* the last call and the machine before it
  \* ---- the scene, its AIBlackboard and what the last blackboard call did ----
  scene,        \* [time, levelData, player, base]
  blackboard,   \* the fields of the AIBlackboard
  bbOp,         \* the last call, its arguments, its result, the blackboard before it
  \* ---- the enemies of the scene, each an EnemyTank with its EnemyAI ----
  enemies,      \* id -> the fields of the tank and of its controller
  \* ---- one ObjectPool and what its last method call did ----
  objectPool,   \* [pool, active, maxSize, created]
  poolOp,       \* the last call, its argument, its result, the pool before it
  \* ---- the steering of one EnemyAI and the freeze of its tank ----
  steering      \* the direction and timer fields of the controller and its tank

pathVars == <<fpMap, fpStart, fpGoal, openList, closedList, fpResult, fpPc, currentPath>>
smVars == <<stateMachine, smCalls, smOutcome, smWarned, smOp>>

bbVars == <<scene, blackboard, bbOp>>

aiVars == <<enemies>>

poolVars == <<objectPool, poolOp>>

steerVars == <<steering>>

vars == <<pathVars, smVars, bbVars, aiVars, poolVars, steerVars>>

notPathVars == <<smVars, bbVars, aiVars, poolVars, steerVars>>
notSmVars == <<pathVars, bbVars, aiVars, poolVars, steerVars>>
notBbVars == <<pathVars, smVars, aiVars, poolVars, steerVars>>
notSceneVars == <<pathVars, smVars, bbOp, poolVars, steerVars>>
notPoolVars == <<pathVars, smVars, bbVars, aiVars, steerVars>>
notSteerVars == <<pathVars, smVars, bbOp, poolVars>>

Null == "null"

Abs(n) == IF n < 0 THEN -n ELSE n

\* Values of the variables a specification does not use.
NoScene == [absent |-> TRUE]
NoBlackboard == [absent |-> TRUE]
NoCall == [op |-> "none"]
NoEnemies == [k \in {} |-> Null]
NoPool == [absent |-> TRUE]
NoSteering == [absent |-> TRUE]

(***************************************************************************)
(* Constants.js (GAME_CONFIG, TILE_TYPES)                                  *)
(***************************************************************************)
TILE_SIZE == 32
EMPTY == 0
BRICK == 1
STEEL == 2
WATER == 3
ICE == 4
FOREST == 5
BASE == 6

(***************************************************************************)
(* Bounds of the pathfinder inputs                                         *)
(***************************************************************************)
MapCols == 4
MapRows == 3
MaxBlocked == 3

GridCells == {[x |-> cx, y |-> cy] : cx \in 0..(MapCols - 1), cy \in 0..(MapRows - 1)}

\* Cells just outside the grid, one per side.
OutsideCells == { [x |-> -1, y |-> 0], [x |-> MapCols, y |-> MapRows - 1],
                  [x |-> 0, y |-> -1], [x |-> MapCols - 1, y |-> MapRows] }

BlockingTiles == <<BRICK, STEEL, WATER>>
WalkableTiles == <<EMPTY, ICE, FOREST, BASE>>

\* The tile of a cell of an input map: every tile type occurs.
TileFor(blocked, c) ==
  IF c \in blocked THEN BlockingTiles[((c.x + c.y) % 3) + 1]
                   ELSE WalkableTiles[((c.x + 2 * c.y) % 4) + 1]

LevelMaps ==
  { [cy \in 0..(MapRows - 1) |-> [cx \in 0..(MapCols - 1) |-> TileFor(b, [x |-> cx, y |-> cy])]] :
      b \in {s \in SUBSET GridCells : Cardinality(s) <= MaxBlocked} }

\* World coordinates inside a cell: its low edge and its high edge.
Offsets == {0, TILE_SIZE - 1}

WorldPoint(c, o) == [x |-> c.x * TILE_SIZE + o, y |-> c.y * TILE_SIZE + o]

(***************************************************************************)
(* AStar                                                                   *)
(***************************************************************************)
NoNode == [nil |-> TRUE]

NullPath == [isNull |-> TRUE, waypoints |-> <<>>]
PathOf(ws) == [isNull |-> FALSE, waypoints |-> ws]

\* Math.floor(start.x / tileSize)
ToGrid(p, tileSize) == [x |-> p.x \div tileSize, y |-> p.y \div tileSize]

MapHeight(m) == Cardinality(DOMAIN m)
MapWidth(m) == Cardinality(DOMAIN m[0])

isValidNode(node, m) ==
  /\ node.x >= 0
  /\ node.x < MapWidth(m)
  /\ node.y >= 0
  /\ node.y < MapHeight(m)

WalkableTileTypes == {EMPTY, ICE, FOREST, BASE}

isWalkable(node, m) ==
  IF ~isValidNode(node, m) THEN FALSE
  ELSE m[node.y][node.x] \in WalkableTileTypes

heuristic(a, b) == Abs(a.x - b.x) + Abs(a.y - b.y)

directions == << [x |-> 0, y |-> -1], [x |-> 0, y |-> 1], [x |-> -1, y |-> 0], [x |-> 1, y |-> 0] >>

\* A neighbour list that checks the bounds only.
getNeighborsInGrid(node, m) ==
  LET cand == [i \in 1..4 |-> [x |-> node.x + directions[i].x, y |-> node.y + directions[i].y]]
  IN  SelectSeq(cand, LAMBDA n : isValidNode(n, m))

getNeighbors(node, m) ==
  LET cand == [i \in 1..4 |-> [x |-> node.x + directions[i].x, y |-> node.y + directions[i].y]]
  IN  SelectSeq(cand, LAMBDA n : isWalkable(n, m))

\* The scan of lines 51-56: the first node of minimal f.
RECURSIVE ScanMin(_, _, _)
ScanMin(open, i, currentIndex) ==
  IF i > Len(open) THEN currentIndex
  ELSE IF open[i].f < open[currentIndex].f THEN ScanMin(open, i + 1, i)
       ELSE ScanMin(open, i + 1, currentIndex)

\* Taking the newest node instead of the one of minimal f.
MinFIndexNewest(open) == Len(open)

MinFIndex(open) == ScanMin(open, 2, 1)

\* openList.splice(currentIndex, 1)
Splice(s, i) == [j \in 1..(Len(s) - 1) |-> IF j < i THEN s[j] ELSE s[j + 1]]

\* openList.find(node => node.x === neighbor.x && node.y === neighbor.y): index or 0
FindIndex(open, n) ==
  IF \E i \in 1..Len(open) : open[i].x = n.x /\ open[i].y = n.y
  THEN CHOOSE i \in 1..Len(open) :
         /\ open[i].x = n.x /\ open[i].y = n.y
         /\ \A j \in 1..(i - 1) : ~(open[j].x = n.x /\ open[j].y = n.y)
  ELSE 0

\* Lines 72-104: the neighbours of current, one after the other.
RECURSIVE Expand(_, _, _, _, _, _)
Expand(open, closed, neighbors, i, current, goalNode) ==
  IF i > Len(neighbors) THEN open
  ELSE
    LET neighbor == neighbors[i]
        gScore == current.g + 1
        k == FindIndex(open, neighbor)
    IN  IF neighbor \in closed
        THEN Expand(open, closed, neighbors, i + 1, current, goalNode)
        ELSE IF k = 0
        THEN LET h == heuristic(neighbor, goalNode)
             IN  Expand(Append(open, [x |-> neighbor.x, y |-> neighbor.y, g |-> gScore,
                                      h |-> h, f |-> gScore + h, parent |-> current]),
                        closed, neighbors, i + 1, current, goalNode)
        ELSE IF gScore < open[k].g
        THEN Expand([open EXCEPT ![k] = [g |-> gScore, f |-> gScore + open[k].h,
                                         parent |-> current] @@ open[k]],
                    closed, neighbors, i + 1, current, goalNode)
        ELSE Expand(open, closed, neighbors, i + 1, current, goalNode)

\* Lines 200-209: the chain of parents, start first.
RECURSIVE Chain(_, _)
Chain(node, tileSize) ==
  IF node = NoNode THEN <<>>
  ELSE Append(Chain(node.parent, tileSize),
              [x |-> node.x * tileSize + tileSize \div 2,
               y |-> node.y * tileSize + tileSize \div 2,
               gridX |-> node.x, gridY |-> node.y])

\* reconstructPath that keeps the start node.
reconstructPathWithStart(node, tileSize) == Chain(node, tileSize)

reconstructPath(node, tileSize) ==
  LET path == Chain(node, tileSize)
  IN  IF Len(path) > 0 THEN Tail(path) ELSE path

\* Math.sign
Sign(n) == IF n > 0 THEN 1 ELSE IF n < 0 THEN -1 ELSE 0

\* lastDirection = null; a direction `${dx},${dy}` is kept as the pair <<dx, dy>>.
NoDirection == << >>

\* Lines 232-246 of simplifyPath: the loop from path[i - 1] to path[i] on.
RECURSIVE SimplifyFrom(_, _, _, _)
SimplifyFrom(path, i, simplified, lastDirection) ==
  IF i > Len(path) THEN simplified
  ELSE LET prev == path[i - 1]
           curr == path[i]
           currentDirection == <<Sign(curr.x - prev.x), Sign(curr.y - prev.y)>>
       IN  IF currentDirection # lastDirection
           THEN SimplifyFrom(path, i + 1, Append(simplified, prev), currentDirection)
           ELSE SimplifyFrom(path, i + 1, simplified, lastDirection)

\* simplifyPath without the push of the last point.
simplifyPathNoLast(path) ==
  IF path.isNull \/ Len(path.waypoints) <= 2 THEN path
  ELSE PathOf(SimplifyFrom(path.waypoints, 2, <<path.waypoints[1]>>, NoDirection))

\* simplifyPath(path)
simplifyPath(path) ==
  IF path.isNull \/ Len(path.waypoints) <= 2 THEN path
  ELSE PathOf(Append(SimplifyFrom(path.waypoints, 2, <<path.waypoints[1]>>, NoDirection),
                     path.waypoints[Len(path.waypoints)]))

StartNode == ToGrid(fpStart, TILE_SIZE)
GoalNode == ToGrid(fpGoal, TILE_SIZE)

\* Lines 17-46: conversion, endpoint check, the start node on the open list.
FindPathBegin ==
  /\ fpPc = "call"
  /\ IF ~isValidNode(StartNode, fpMap) \/ ~isValidNode(GoalNode, fpMap)
     THEN /\ fpResult' = NullPath
          /\ fpPc' = "done"
          /\ UNCHANGED <<openList, closedList>>
     ELSE /\ LET h == heuristic(StartNode, GoalNode)
             IN  openList' = << [x |-> StartNode.x, y |-> StartNode.y, g |-> 0, h |-> h,
                                 f |-> 0 + h, parent |-> NoNode] >>
          /\ closedList' = {}
          /\ fpPc' = "loop"
          /\ UNCHANGED fpResult
  /\ UNCHANGED <<fpMap, fpStart, fpGoal, currentPath>>
  /\ UNCHANGED notPathVars

\* Lines 49-104: one iteration of the main loop.
FindPathIterate ==
  /\ fpPc = "loop"
  /\ Len(openList) > 0
  /\ LET currentIndex == MinFIndex(openList)
         current == openList[currentIndex]
     IN  IF current.x = GoalNode.x /\ current.y = GoalNode.y
         THEN /\ fpResult' = PathOf(reconstructPath(current, TILE_SIZE))
              /\ fpPc' = "done"
              /\ UNCHANGED <<openList, closedList>>
         ELSE LET closed == closedList \cup {[x |-> current.x, y |-> current.y]}
              IN  /\ closedList' = closed
                  /\ openList' = Expand(Splice(openList, currentIndex), closed,
                                        getNeighbors(current, fpMap), 1, current, GoalNode)
                  /\ UNCHANGED <<fpResult, fpPc>>
  /\ UNCHANGED <<fpMap, fpStart, fpGoal, currentPath>>
  /\ UNCHANGED notPathVars

\* Lines 49, 107-108: the open list is empty.
FindPathExhausted ==
  /\ fpPc = "loop"
  /\ Len(openList) = 0
  /\ fpResult' = NullPath
  /\ fpPc' = "done"
  /\ UNCHANGED <<fpMap, fpStart, fpGoal, openList, closedList, currentPath>>
  /\ UNCHANGED notPathVars

\* The inputs of one findPath call; the state machine is not used.
PathInit ==
  /\ fpMap \in LevelMaps
  /\ \E o \in Offsets :
       /\ fpStart \in {WorldPoint(c, o) : c \in GridCells \cup OutsideCells}
       /\ fpGoal \in {WorldPoint(c, o) : c \in GridCells \cup OutsideCells}
  /\ openList = <<>>
  /\ closedList = {}
  /\ fpResult = NullPath
  /\ fpPc = "call"
  /\ currentPath = NullPath
  /\ objectPool = NoPool
  /\ poolOp = NoCall
  /\ steering = NoSteering
  /\ stateMachine = [states |-> << >>, currentState |-> Null, previousState |-> Null]
  /\ smCalls = << >>
  /\ smOutcome = "void"
  /\ smWarned = FALSE
  /\ smOp = [op |-> "new", name |-> Null,
             before |-> [states |-> << >>, currentState |-> Null, previousState |-> Null]]
  /\ scene = NoScene
  /\ blackboard = NoBlackboard
  /\ bbOp = NoCall
  /\ enemies = NoEnemies

PathNext == FindPathBegin \/ FindPathIterate \/ FindPathExhausted

SpecPath == PathInit /\ [][PathNext]_vars

(***************************************************************************)
(* Reference notions for the pathfinder claims                             *)
(***************************************************************************)
\* Terrain that permits movement: Empty, Ice, Forest, Base.
PermitsMovement(c, m) == m[c.y][c.x] \in {0, 4, 5, 6}

\* Cells one move away: a move enters a walkable cell of the grid.
Steps(c, m) == {n \in GridCells : PermitsMovement(n, m) /\ Abs(n.x - c.x) + Abs(n.y - c.y) = 1}

\* Breadth-first distance from the cells of frontier (at distance d) to goal; -1 if none.
RECURSIVE BfsDistance(_, _, _, _, _)
BfsDistance(frontier, seen, d, goal, m) ==
  IF goal \in frontier THEN d
  ELSE IF frontier = {} THEN -1
  ELSE LET next == (UNION {Steps(c, m) : c \in frontier}) \ seen
       IN  BfsDistance(next, seen \cup next, d + 1, goal, m)

MinMoves(s, g, m) == BfsDistance({s}, {s}, 0, g, m)

EndpointsInGrid == isValidNode(StartNode, fpMap) /\ isValidNode(GoalNode, fpMap)

C10_UnreachableIsNull ==
  (fpPc = "done" /\ EndpointsInGrid /\ MinMoves(StartNode, GoalNode, fpMap) < 0)
    => fpResult = NullPath

\* The search ran, closed at least two cells and gave up on a walkable goal.
C10_Witness ==
  /\ fpPc = "done"
  /\ EndpointsInGrid
  /\ PermitsMovement(GoalNode, fpMap)
  /\ PermitsMovement(StartNode, fpMap)
  /\ MinMoves(StartNode, GoalNode, fpMap) < 0
  /\ Cardinality(closedList) >= 2
  /\ fpResult = NullPath

\* The cells of the returned path, after the start cell.
WalkCells ==
  <<StartNode>> \o [i \in 1..Len(fpResult.waypoints) |->
                      [x |-> fpResult.waypoints[i].gridX, y |-> fpResult.waypoints[i].gridY]]

\* C40: every path findPath returns is a valid walk from start to goal: it
\* excludes the start cell, each waypoint is the centre of a walkable cell of
\* the grid, each is 4-adjacent to the one before (the first to the start
\* cell), no cell repeats, and the last waypoint is the centre of the goal
\* cell.
C40_ReturnedPathIsValidWalk ==
  (fpPc = "done" /\ ~fpResult.isNull)
    => /\ \A i \in 2..Len(WalkCells) :
            /\ WalkCells[i] \in GridCells
            /\ PermitsMovement(WalkCells[i], fpMap)
            /\ fpResult.waypoints[i - 1].x = WalkCells[i].x * TILE_SIZE + TILE_SIZE \div 2
            /\ fpResult.waypoints[i - 1].y = WalkCells[i].y * TILE_SIZE + TILE_SIZE \div 2
            /\ Abs(WalkCells[i].x - WalkCells[i - 1].x)
                 + Abs(WalkCells[i].y - WalkCells[i - 1].y) = 1
       /\ \A i, j \in 1..Len(WalkCells) : i # j => WalkCells[i] # WalkCells[j]
       /\ WalkCells[Len(WalkCells)] = GoalNode

\* A path of at least three waypoints with a turn has been returned.
C40_Witness ==
  /\ fpPc = "done"
  /\ ~fpResult.isNull
  /\ Len(fpResult.waypoints) >= 3
  /\ \E i, j \in 1..Len(fpResult.waypoints) :
       /\ fpResult.waypoints[i].gridX # fpResult.waypoints[j].gridX
       /\ fpResult.waypoints[i].gridY # fpResult.waypoints[j].gridY

\* A cell that a tank may stand on: in the grid and not Brick, Steel or Water.
WalkableCell(c, m) == isValidNode(c, m) /\ PermitsMovement(c, m)

\* C11: when the start cell or the goal cell is outside the grid or is not
\* walkable terrain, findPath returns null and never a path.
C11_BadEndpointIsNull ==
  (fpPc = "done" /\ (~WalkableCell(StartNode, fpMap) \/ ~WalkableCell(GoalNode, fpMap)))
    => fpResult = NullPath

(***************************************************************************)
(***************************************************************************)
(* SpecSimplify: AStar.simplifyPath on the paths findPath builds           *)
(***************************************************************************)
MaxPathLen == 5

\* The waypoint reconstructPath makes of a cell.
Waypoint(c) ==
  [x |-> c.x * TILE_SIZE + TILE_SIZE \div 2, y |-> c.y * TILE_SIZE + TILE_SIZE \div 2,
   gridX |-> c.x, gridY |-> c.y]

\* The cell sequences of n cells in which every cell is one move from the one
\* before it, as in a chain of parents.
RECURSIVE CellPaths(_)
CellPaths(n) ==
  IF n = 0 THEN {<< >>}
  ELSE IF n = 1 THEN {<<c>> : c \in GridCells}
  ELSE UNION {{Append(w, c) : c \in {d \in GridCells : heuristic(w[Len(w)], d) = 1}} :
                w \in CellPaths(n - 1)}

GridPaths ==
  {PathOf([i \in 1..Len(w) |-> Waypoint(w[i])]) : w \in UNION {CellPaths(n) : n \in 0..MaxPathLen}}

\* AStar.simplifyPath(path), called on what findPath returned.
SimplifyPath ==
  /\ fpPc = "done"
  /\ currentPath' = simplifyPath(fpResult)
  /\ fpPc' = "simplified"
  /\ UNCHANGED <<fpMap, fpStart, fpGoal, openList, closedList, fpResult>>
  /\ UNCHANGED notPathVars

\* A path to simplify: null, or a path over the cells of the grid.
SimplifyInit ==
  /\ fpResult \in {NullPath} \cup GridPaths
  /\ fpPc = "done"
  /\ currentPath = NullPath
  /\ objectPool = NoPool
  /\ poolOp = NoCall
  /\ steering = NoSteering
  /\ fpMap = << >>
  /\ fpStart = [x |-> 0, y |-> 0]
  /\ fpGoal = [x |-> 0, y |-> 0]
  /\ openList = << >>
  /\ closedList = {}
  /\ stateMachine = [states |-> << >>, currentState |-> Null, previousState |-> Null]
  /\ smCalls = << >>
  /\ smOutcome = "void"
  /\ smWarned = FALSE
  /\ smOp = [op |-> "new", name |-> Null,
             before |-> [states |-> << >>, currentState |-> Null, previousState |-> Null]]
  /\ scene = NoScene
  /\ blackboard = NoBlackboard
  /\ bbOp = NoCall
  /\ enemies = NoEnemies

SimplifyNext == SimplifyPath

SpecSimplify == SimplifyInit /\ [][SimplifyNext]_vars

\* Two waypoints that differ in at most one coordinate.
OnOneAxis(a, b) == a.x = b.x \/ a.y = b.y

\* The turns of a waypoint sequence: the places where the direction of travel
\* into a waypoint differs from the direction out of it.
TurnIndices(ws) ==
  {i \in 2..(Len(ws) - 1) :
     <<Sign(ws[i].x - ws[i - 1].x), Sign(ws[i].y - ws[i - 1].y)>>
       # <<Sign(ws[i + 1].x - ws[i].x), Sign(ws[i + 1].y - ws[i].y)>>}

\* The waypoints of ws at the indices of keep, in path order.
RECURSIVE KeptFrom(_, _, _)
KeptFrom(ws, keep, i) ==
  IF i > Len(ws) THEN << >>
  ELSE IF i \in keep THEN <<ws[i]>> \o KeptFrom(ws, keep, i + 1)
  ELSE KeptFrom(ws, keep, i + 1)

C13_KeepsEndpointsAndTurnsOnce ==
  (fpPc = "simplified" /\ ~fpResult.isNull /\ Len(fpResult.waypoints) > 0)
    => /\ currentPath.waypoints
            = KeptFrom(fpResult.waypoints,
                       {1, Len(fpResult.waypoints)} \cup TurnIndices(fpResult.waypoints), 1)
       /\ Len(currentPath.waypoints) <= Len(fpResult.waypoints)

(* StateMachine                                                            *)
(***************************************************************************)
\* The state names a caller may use, registered or not.
SMNames == {"patrol", "chase", "attack"}

\* The handler objects given to addState: which of enter, update, exit they have.
HandlerShapes ==
  { [enter |-> TRUE, update |-> TRUE, exit |-> TRUE],
    [enter |-> TRUE, update |-> FALSE, exit |-> FALSE],
    [enter |-> FALSE, update |-> FALSE, exit |-> FALSE] }

\* constructor
NewStateMachine == [states |-> << >>, currentState |-> Null, previousState |-> Null]

Call(fn, name) == [fn |-> fn, state |-> name]

\* addState(name, state)
addState(sm, name, state) ==
  [sm EXCEPT !.states = [n \in (DOMAIN sm.states) \cup {name} |->
                           IF n = name THEN state ELSE sm.states[n]]]

\* setState without the check that the name is registered.
setStateUnchecked(sm, name) ==
  IF sm.currentState = name
  THEN [sm |-> sm, calls |-> << >>, outcome |-> "false", warned |-> FALSE]
  ELSE LET exitCalls == IF sm.currentState # Null /\ sm.currentState \in DOMAIN sm.states
                           /\ sm.states[sm.currentState].exit
                        THEN << Call("exit", sm.currentState) >> ELSE << >>
           enterCalls == IF name \in DOMAIN sm.states /\ sm.states[name].enter
                         THEN << Call("enter", name) >> ELSE << >>
       IN  [sm |-> [sm EXCEPT !.previousState = sm.currentState, !.currentState = name],
            calls |-> exitCalls \o enterCalls, outcome |-> "true", warned |-> FALSE]

\* setState without the check that the machine is already in the state.
setStateAlways(sm, name) ==
  IF name \notin DOMAIN sm.states
  THEN [sm |-> sm, calls |-> << >>, outcome |-> "false", warned |-> TRUE]
  ELSE LET exitCalls == IF sm.currentState # Null /\ sm.states[sm.currentState].exit
                        THEN << Call("exit", sm.currentState) >> ELSE << >>
           enterCalls == IF sm.states[name].enter THEN << Call("enter", name) >> ELSE << >>
       IN  [sm |-> [sm EXCEPT !.previousState = sm.currentState, !.currentState = name],
            calls |-> exitCalls \o enterCalls, outcome |-> "true", warned |-> FALSE]

\* setState that enters the new state before it leaves the old one.
setStateEnterFirst(sm, name) ==
  IF name \notin DOMAIN sm.states
  THEN [sm |-> sm, calls |-> << >>, outcome |-> "false", warned |-> TRUE]
  ELSE IF sm.currentState = name
  THEN [sm |-> sm, calls |-> << >>, outcome |-> "false", warned |-> FALSE]
  ELSE LET exitCalls == IF sm.currentState # Null /\ sm.states[sm.currentState].exit
                        THEN << Call("exit", sm.currentState) >> ELSE << >>
           enterCalls == IF sm.states[name].enter THEN << Call("enter", name) >> ELSE << >>
       IN  [sm |-> [sm EXCEPT !.previousState = sm.currentState, !.currentState = name],
            calls |-> enterCalls \o exitCalls, outcome |-> "true", warned |-> FALSE]

\* setState that does not record the state it leaves.
setStateNoPrevious(sm, name) ==
  IF name \notin DOMAIN sm.states
  THEN [sm |-> sm, calls |-> << >>, outcome |-> "false", warned |-> TRUE]
  ELSE IF sm.currentState = name
  THEN [sm |-> sm, calls |-> << >>, outcome |-> "false", warned |-> FALSE]
  ELSE [sm |-> [sm EXCEPT !.currentState = name],
        calls |-> (IF sm.currentState # Null /\ sm.states[sm.currentState].exit
                   THEN << Call("exit", sm.currentState) >> ELSE << >>)
                  \o (IF sm.states[name].enter THEN << Call("enter", name) >> ELSE << >>),
        outcome |-> "true", warned |-> FALSE]

\* setState(name, ...args): the machine after the call, the handlers it ran in
\* order, the value returned and whether console.warn was called.
setState(sm, name) ==
  IF name \notin DOMAIN sm.states
  THEN [sm |-> sm, calls |-> << >>, outcome |-> "false", warned |-> TRUE]
  ELSE IF sm.currentState = name
  THEN [sm |-> sm, calls |-> << >>, outcome |-> "false", warned |-> FALSE]
  ELSE LET exitCalls == IF sm.currentState # Null /\ sm.states[sm.currentState].exit
                        THEN << Call("exit", sm.currentState) >> ELSE << >>
           enterCalls == IF sm.states[name].enter THEN << Call("enter", name) >> ELSE << >>
       IN  [sm |-> [sm EXCEPT !.previousState = sm.currentState, !.currentState = name],
            calls |-> exitCalls \o enterCalls, outcome |-> "true", warned |-> FALSE]

\* update(delta)
smUpdate(sm) ==
  IF sm.currentState # Null /\ sm.states[sm.currentState].update
  THEN << Call("update", sm.currentState) >> ELSE << >>

\* revertToPrevious()
revertToPrevious(sm) ==
  IF sm.previousState # Null THEN setState(sm, sm.previousState)
  ELSE [sm |-> sm, calls |-> << >>, outcome |-> "false", warned |-> FALSE]

\* reset()
reset(sm) ==
  [sm |-> [sm EXCEPT !.currentState = Null, !.previousState = Null],
   calls |-> IF sm.currentState # Null /\ sm.states[sm.currentState].exit
             THEN << Call("exit", sm.currentState) >> ELSE << >>,
   outcome |-> "void", warned |-> FALSE]

OpRecord(op, name) == [op |-> op, name |-> name, before |-> stateMachine]

SMAddState(name, state) ==
  /\ stateMachine' = addState(stateMachine, name, state)
  /\ smCalls' = << >>
  /\ smOutcome' = "void"
  /\ smWarned' = FALSE
  /\ smOp' = OpRecord("addState", name)
  /\ UNCHANGED notSmVars

SMApply(r, op, name) ==
  /\ stateMachine' = r.sm
  /\ smCalls' = r.calls
  /\ smOutcome' = r.outcome
  /\ smWarned' = r.warned
  /\ smOp' = OpRecord(op, name)
  /\ UNCHANGED notSmVars

SMSetState(name) == SMApply(setState(stateMachine, name), "setState", name)

SMUpdate ==
  SMApply([sm |-> stateMachine, calls |-> smUpdate(stateMachine), outcome |-> "void",
           warned |-> FALSE], "update", Null)

SMRevertToPrevious == SMApply(revertToPrevious(stateMachine), "revertToPrevious", Null)

SMReset == SMApply(reset(stateMachine), "reset", Null)

\* A new StateMachine; no findPath call is running.
SMInit ==
  /\ stateMachine = NewStateMachine
  /\ smCalls = << >>
  /\ smOutcome = "void"
  /\ smWarned = FALSE
  /\ smOp = [op |-> "new", name |-> Null, before |-> NewStateMachine]
  /\ fpMap = << >>
  /\ fpStart = [x |-> 0, y |-> 0]
  /\ fpGoal = [x |-> 0, y |-> 0]
  /\ openList = << >>
  /\ closedList = {}
  /\ fpResult = NullPath
  /\ fpPc = "idle"
  /\ currentPath = NullPath
  /\ objectPool = NoPool
  /\ poolOp = NoCall
  /\ steering = NoSteering
  /\ scene = NoScene
  /\ blackboard = NoBlackboard
  /\ bbOp = NoCall
  /\ enemies = NoEnemies

SMNext ==
  \/ \E name \in SMNames, state \in HandlerShapes : SMAddState(name, state)
  \/ \E name \in SMNames : SMSetState(name)
  \/ SMUpdate
  \/ SMRevertToPrevious
  \/ SMReset

SpecSM == SMInit /\ [][SMNext]_vars

\* The last call was setState(name) on a machine where name was registered / current.
LastSetState == smOp.op = "setState"
WasRegistered == smOp.name \in DOMAIN smOp.before.states
WasCurrent == smOp.before.currentState = smOp.name

\* C6: setState(name) while the machine is already in state name returns false and
\* is a no-op - no exit or enter handler runs, current and previous state stay.
C6_SameStateNoOp ==
  (LastSetState /\ WasCurrent)
    => /\ smOutcome = "false"
       /\ smCalls = << >>
       /\ stateMachine = smOp.before

\* The repeated setState of a state that has both handlers, after a real switch.
C6_Witness ==
  /\ LastSetState /\ WasCurrent
  /\ smOp.before.previousState # Null
  /\ smOp.before.states[smOp.name].enter
  /\ smOp.before.states[smOp.name].exit
  /\ smOutcome = "false"

\* C7: on every successful switch from A to B, A's exit handler runs exactly once,
\* then B's enter handler, and no other handler runs.
C7_ExitBeforeEnter ==
  (LastSetState /\ smOutcome = "true" /\ smOp.before.currentState # Null)
    => LET A == smOp.before.currentState
           B == smOp.name
       IN  /\ stateMachine.currentState = B
           /\ smCalls = (IF smOp.before.states[A].exit THEN << Call("exit", A) >> ELSE << >>)
                        \o (IF smOp.before.states[B].enter THEN << Call("enter", B) >> ELSE << >>)

\* A switch between two states that both have the handlers.
C7_Witness ==
  /\ LastSetState /\ smOutcome = "true"
  /\ smOp.before.currentState # Null
  /\ smCalls = << Call("exit", smOp.before.currentState), Call("enter", smOp.name) >>

\* C8 as claimed: a transition to an unregistered state name raises an error.
C8_UnknownStateRaises ==
  (LastSetState /\ ~WasRegistered) => smOutcome = "throw"

\* C8 as the code has it: setState of an unregistered name writes a console
\* warning and returns false; no handler runs and the machine stays as it was.
C8_UnknownStateWarnsAndReturnsFalse ==
  (LastSetState /\ ~WasRegistered)
    => /\ smOutcome = "false"
       /\ smWarned
       /\ smCalls = << >>
       /\ stateMachine = smOp.before

\* An unregistered name is set while the machine is in a registered state.
C8_Witness ==
  /\ LastSetState /\ ~WasRegistered
  /\ smOp.before.currentState # Null
  /\ smOutcome = "false" /\ smWarned
  /\ stateMachine.currentState = smOp.before.currentState

\* The handlers a switch from state a to state b of machine sm runs.
SwitchCalls(sm, a, b) ==
  (IF a # Null /\ sm.states[a].exit THEN << Call("exit", a) >> ELSE << >>)
    \o (IF sm.states[b].enter THEN << Call("enter", b) >> ELSE << >>)

\* C22: after a successful setState from A to B the previous state is A, and a
\* rejected setState changes neither the current nor the previous state;
\* revertToPrevious() switches back to the previous state, running the exit of
\* the state it leaves and then the enter of the state it returns to, and
\* returns true, and it returns false and changes nothing when there is no
\* previous state.
C22_PreviousRecordedAndReverted ==
  /\ smOp.op = "setState" /\ smOutcome = "true"
       => /\ stateMachine.previousState = smOp.before.currentState
          /\ stateMachine.currentState = smOp.name
  /\ smOp.op = "setState" /\ smOutcome = "false" => stateMachine = smOp.before
  /\ smOp.op = "revertToPrevious"
       => IF smOp.before.previousState = Null
          THEN smOutcome = "false" /\ stateMachine = smOp.before /\ smCalls = << >>
          ELSE /\ smOutcome = "true"
               /\ stateMachine.currentState = smOp.before.previousState
               /\ stateMachine.previousState = smOp.before.currentState
               /\ smCalls = SwitchCalls(smOp.before, smOp.before.currentState,
                                        smOp.before.previousState)

\* A revert that ran the exit of the state left and the enter of the state
\* returned to.
C22_Witness ==
  /\ smOp.op = "revertToPrevious"
  /\ smOp.before.previousState # Null
  /\ smOutcome = "true"
  /\ Len(smCalls) = 2
  /\ stateMachine.currentState = smOp.before.previousState
  /\ stateMachine.previousState = smOp.before.currentState

(***************************************************************************)
(* AIBlackboard                                                            *)
(***************************************************************************)
\* GAME_CONFIG
WIDTH == 832
HEIGHT == 832

\* this.config of the constructor
flankingDistance == 120
minDistanceBetweenEnemies == 60
playerInfoExpireTime == 5000
maxFlankingEnemies == 2

\* A JavaScript Map: a function on the keys it holds.
EmptyMap == [k \in {} |-> Null]
MapSet(m, k, v) == [x \in (DOMAIN m) \cup {k} |-> IF x = k THEN v ELSE m[x]]
MapDelete(m, k) == [x \in (DOMAIN m) \ {k} |-> m[x]]
MapValues(m) == {m[k] : k \in DOMAIN m}

NoPosition == [none |-> TRUE]
NoTank == [none |-> TRUE]
Pos(px, py) == [x |-> px, y |-> py]

\* Phaser.Math.Distance.Between, squared: a distance d is compared with a limit
\* L >= 0 as d * d against L * L.
DistanceSq(x1, y1, x2, y2) == (x1 - x2) * (x1 - x2) + (y1 - y2) * (y1 - y2)

\* The whole part of the square root of n, found by bisection between lo and hi.
RECURSIVE SqrtBetween(_, _, _)
SqrtBetween(n, lo, hi) ==
  IF lo >= hi THEN lo
  ELSE LET mid == (lo + hi + 1) \div 2
       IN  IF mid * mid <= n THEN SqrtBetween(n, mid, hi) ELSE SqrtBetween(n, lo, mid - 1)

\* Phaser.Math.Distance.Between in whole pixels.
Distance(x1, y1, x2, y2) == SqrtBetween(DistanceSq(x1, y1, x2, y2), 0, WIDTH + HEIGHT)

\* scene.levelData: none, or a map of MAP_SIZE rows and columns given by the
\* tiles that are not Empty.
NoLevel == [hasMap |-> FALSE, size |-> 0, tiles |-> EmptyMap]
TileAt(level, gridX, gridY) ==
  IF <<gridX, gridY>> \in DOMAIN level.tiles THEN level.tiles[<<gridX, gridY>>] ELSE EMPTY

\* constructor (with _initializePatrolPoints; thirds are kept in whole pixels)
NewBlackboard ==
  [ playerLastKnownPosition |-> NoPosition,
    playerLastSeenTime |-> 0,
    playerVelocity |-> Pos(0, 0),
    playerDirection |-> "down",
    assignedTargets |-> EmptyMap,
    flankingPositions |-> EmptyMap,
    threatLevel |-> 0,
    activeEnemyCount |-> 0,
    enemyPositions |-> EmptyMap,
    attackingEnemies |-> {},
    patrolPoints |-> << Pos(80, 80), Pos(WIDTH - 80, 80), Pos(80, HEIGHT - 80),
                        Pos(WIDTH - 80, HEIGHT - 80),
                        Pos(WIDTH \div 2, 80), Pos(WIDTH \div 2, HEIGHT - 80),
                        Pos(80, HEIGHT \div 2), Pos(WIDTH - 80, HEIGHT \div 2),
                        Pos(WIDTH \div 2, HEIGHT \div 2),
                        Pos(WIDTH \div 3, HEIGHT \div 3), Pos((WIDTH * 2) \div 3, HEIGHT \div 3),
                        Pos(WIDTH \div 3, (HEIGHT * 2) \div 3),
                        Pos((WIDTH * 2) \div 3, (HEIGHT * 2) \div 3) >>,
    patrolPointsNeedValidation |-> TRUE,
    assignedPatrolPoints |-> EmptyMap ]

\* updatePlayerInfo(player)
updatePlayerInfo(bb, player, now) ==
  IF player = NoTank \/ player.isDestroyed THEN bb
  ELSE [bb EXCEPT !.playerLastKnownPosition = Pos(player.x, player.y),
                  !.playerLastSeenTime = now,
                  !.playerVelocity = player.velocity,
                  !.playerDirection = player.direction]

\* isPlayerInfoValid()
isPlayerInfoValid(bb, now) ==
  IF bb.playerLastKnownPosition = NoPosition THEN FALSE
  ELSE (now - bb.playerLastSeenTime) < playerInfoExpireTime

\* predictPlayerPosition(predictionTime) asked at time now; predictionTime is in
\* milliseconds here (the code takes seconds, 0.3 by default) and the speeds are
\* whole multiples of 10, so that the products stay whole.
predictPlayerPosition(bb, now, predictionTime) ==
  IF bb.playerLastKnownPosition = NoPosition THEN NoPosition
  ELSE IF (now - bb.playerLastSeenTime) > playerInfoExpireTime
  THEN bb.playerLastKnownPosition
  ELSE Pos(bb.playerLastKnownPosition.x + (bb.playerVelocity.x * predictionTime) \div 1000,
           bb.playerLastKnownPosition.y + (bb.playerVelocity.y * predictionTime) \div 1000)

CountOf(m, v) == Cardinality({k \in DOMAIN m : m[k] = v})

\* assignTarget with the override at one player assignment already.
assignTargetEager(bb, enemyId, preferredTarget) ==
  LET assignedTarget == IF CountOf(bb.assignedTargets, "player") >= 1
                           /\ CountOf(bb.assignedTargets, "base") = 0
                        THEN "base" ELSE preferredTarget
  IN  [bb |-> [bb EXCEPT !.assignedTargets = MapSet(@, enemyId, assignedTarget)],
       result |-> assignedTarget]

\* assignTarget(enemyId, preferredTarget)
assignTarget(bb, enemyId, preferredTarget) ==
  LET playerTargetCount == CountOf(bb.assignedTargets, "player")
      baseTargetCount == CountOf(bb.assignedTargets, "base")
      assignedTarget == IF playerTargetCount >= 2 /\ baseTargetCount = 0
                        THEN "base" ELSE preferredTarget
  IN  [bb |-> [bb EXCEPT !.assignedTargets = MapSet(@, enemyId, assignedTarget)],
       result |-> assignedTarget]

\* removeTargetAssignment that leaves the attacking set alone.
removeTargetAssignmentPartly(bb, enemyId) ==
  [bb EXCEPT !.assignedTargets = MapDelete(@, enemyId),
             !.flankingPositions = MapDelete(@, enemyId),
             !.assignedPatrolPoints = MapDelete(@, enemyId),
             !.enemyPositions = MapDelete(@, enemyId)]

\* removeTargetAssignment(enemyId)
\* removeTargetAssignment that empties the attacking set.
removeTargetAssignmentForAll(bb, enemyId) ==
  [bb EXCEPT !.assignedTargets = MapDelete(@, enemyId),
             !.flankingPositions = MapDelete(@, enemyId),
             !.assignedPatrolPoints = MapDelete(@, enemyId),
             !.enemyPositions = MapDelete(@, enemyId),
             !.attackingEnemies = {}]

removeTargetAssignment(bb, enemyId) ==
  [bb EXCEPT !.assignedTargets = MapDelete(@, enemyId),
             !.flankingPositions = MapDelete(@, enemyId),
             !.assignedPatrolPoints = MapDelete(@, enemyId),
             !.enemyPositions = MapDelete(@, enemyId),
             !.attackingEnemies = @ \ {enemyId}]

\* The first index at which flags is TRUE, or 0: the element at which a
\* for ... of loop returns.
FirstWhere(flags) ==
  IF \E i \in 1..Len(flags) : flags[i]
  THEN CHOOSE i \in 1..Len(flags) : flags[i] /\ \A j \in 1..(i - 1) : ~flags[j]
  ELSE 0

\* _prioritizeFlankingPositions without the sort: left, right, top, bottom.
_prioritizeFlankingPositionsUnsorted(positions, playerDirection) == positions

\* _prioritizeFlankingPositions(positions, playerDirection): the sides are
\* distinct, so the sort puts the position of priority[i] at place i.
priorityMap(playerDirection) ==
  CASE playerDirection = "up" -> <<"bottom", "left", "right", "top">>
    [] playerDirection = "down" -> <<"top", "left", "right", "bottom">>
    [] playerDirection = "left" -> <<"right", "top", "bottom", "left">>
    [] playerDirection = "right" -> <<"left", "top", "bottom", "right">>
    [] OTHER -> <<"left", "right", "top", "bottom">>

_prioritizeFlankingPositions(positions, playerDirection) ==
  LET priority == priorityMap(playerDirection)
  IN  [i \in 1..Len(positions) |->
         positions[CHOOSE k \in 1..Len(positions) : positions[k].side = priority[i]]]

\* _isPositionOccupied that counts only a slot at the very same position.
_isPositionOccupiedSamePlace(bb, pos, excludeEnemyId) ==
  \E enemyId \in (DOMAIN bb.flankingPositions) \ {excludeEnemyId} :
    pos.x = bb.flankingPositions[enemyId].x /\ pos.y = bb.flankingPositions[enemyId].y

\* _isPositionOccupied(pos, excludeEnemyId)
_isPositionOccupied(bb, pos, excludeEnemyId) ==
  \E enemyId \in (DOMAIN bb.flankingPositions) \ {excludeEnemyId} :
    DistanceSq(pos.x, pos.y, bb.flankingPositions[enemyId].x, bb.flankingPositions[enemyId].y)
      < minDistanceBetweenEnemies * minDistanceBetweenEnemies

\* _isPositionWalkable(pos)
_isPositionWalkable(pos, level) ==
  IF ~level.hasMap THEN TRUE
  ELSE LET gridX == pos.x \div TILE_SIZE
           gridY == pos.y \div TILE_SIZE
       IN  IF gridY < 0 \/ gridY >= level.size \/ gridX < 0 \/ gridX >= level.size
           THEN FALSE
           ELSE TileAt(level, gridX, gridY) \notin {BRICK, STEEL, WATER}

\* _isPositionValid(pos)
_isPositionValid(pos, level) ==
  LET margin == 32
  IN  IF pos.x <= margin \/ pos.x >= WIDTH - margin
         \/ pos.y <= margin \/ pos.y >= HEIGHT - margin
      THEN FALSE
      ELSE _isPositionWalkable(pos, level)

\* _isPositionSafelyWalkable(pos): the centre and the four corners
_isPositionSafelyWalkable(pos, level) ==
  LET halfTile == TILE_SIZE \div 2
      checkPoints == { Pos(pos.x, pos.y),
                       Pos(pos.x - halfTile, pos.y - halfTile),
                       Pos(pos.x + halfTile, pos.y - halfTile),
                       Pos(pos.x - halfTile, pos.y + halfTile),
                       Pos(pos.x + halfTile, pos.y + halfTile) }
  IN  \A q \in checkPoints : _isPositionWalkable(q, level)

\* The candidates of one ring of _findNearbyWalkablePosition, in the order tried.
RingCandidates(pos, radius) ==
  << Pos(pos.x + radius, pos.y), Pos(pos.x - radius, pos.y),
     Pos(pos.x, pos.y + radius), Pos(pos.x, pos.y - radius),
     Pos(pos.x + radius, pos.y + radius), Pos(pos.x - radius, pos.y + radius),
     Pos(pos.x + radius, pos.y - radius), Pos(pos.x - radius, pos.y - radius) >>

\* _findNearbyWalkablePosition(pos, searchRadius = 80)
RECURSIVE FindNearbyFrom(_, _, _, _)
FindNearbyFrom(pos, radius, searchRadius, level) ==
  IF radius > searchRadius THEN NoPosition
  ELSE LET candidates == RingCandidates(pos, radius)
           OK(c) == _isPositionValid(c, level) /\ _isPositionSafelyWalkable(c, level)
           k == FirstWhere([i \in 1..Len(candidates) |-> OK(candidates[i])])
       IN  IF k # 0 THEN [x |-> candidates[k].x, y |-> candidates[k].y, side |-> pos.side]
           ELSE FindNearbyFrom(pos, radius + TILE_SIZE \div 2, searchRadius, level)

_findNearbyWalkablePosition(pos, level) == FindNearbyFrom(pos, TILE_SIZE \div 2, 80, level)

\* The four candidates of calculateFlankingPosition.
potentialPositions(playerPos) ==
  << [x |-> playerPos.x - flankingDistance, y |-> playerPos.y, side |-> "left"],
     [x |-> playerPos.x + flankingDistance, y |-> playerPos.y, side |-> "right"],
     [x |-> playerPos.x, y |-> playerPos.y - flankingDistance, side |-> "top"],
     [x |-> playerPos.x, y |-> playerPos.y + flankingDistance, side |-> "bottom"] >>

\* calculateFlankingPosition(enemyId, enemyPos): the blackboard after the call
\* and the position returned (NoPosition for null).
calculateFlankingPosition(bb, enemyId, enemyPos, level) ==
  IF bb.playerLastKnownPosition = NoPosition THEN [bb |-> bb, result |-> NoPosition]
  ELSE
    LET prioritizedPositions ==
          _prioritizeFlankingPositions(potentialPositions(bb.playerLastKnownPosition),
                                       bb.playerDirection)
        Free(pos) == /\ ~_isPositionOccupied(bb, pos, enemyId)
                     /\ _isPositionValid(pos, level)
                     /\ _isPositionSafelyWalkable(pos, level)
        first == FirstWhere([i \in 1..Len(prioritizedPositions) |->
                              Free(prioritizedPositions[i])])
        nearby == [i \in 1..Len(prioritizedPositions) |->
                     _findNearbyWalkablePosition(prioritizedPositions[i], level)]
        FreeNearby(n) == n # NoPosition /\ ~_isPositionOccupied(bb, n, enemyId)
        second == FirstWhere([i \in 1..Len(nearby) |-> FreeNearby(nearby[i])])
    IN  IF first # 0
        THEN [bb |-> [bb EXCEPT !.flankingPositions =
                                  MapSet(@, enemyId, prioritizedPositions[first])],
              result |-> prioritizedPositions[first]]
        ELSE IF second # 0
        THEN [bb |-> [bb EXCEPT !.flankingPositions = MapSet(@, enemyId, nearby[second])],
              result |-> nearby[second]]
        ELSE [bb |-> bb, result |-> NoPosition]

\* getFlankingEnemyCount()
getFlankingEnemyCount(bb) == Cardinality(DOMAIN bb.flankingPositions)

\* canJoinFlanking that admits one agent more.
canJoinFlankingLax(bb) == Cardinality(DOMAIN bb.flankingPositions) <= maxFlankingEnemies

\* canJoinFlanking()
canJoinFlanking(bb) == Cardinality(DOMAIN bb.flankingPositions) < maxFlankingEnemies

\* updateEnemyPosition(enemyId, position)
updateEnemyPosition(bb, enemyId, position, now) ==
  [bb EXCEPT !.enemyPositions = MapSet(@, enemyId, [x |-> position.x, y |-> position.y,
                                                     time |-> now])]

\* markAsAttacking(enemyId)
markAsAttacking(bb, enemyId) == [bb EXCEPT !.attackingEnemies = @ \cup {enemyId}]

\* markAsNotAttacking(enemyId)
markAsNotAttacking(bb, enemyId) == [bb EXCEPT !.attackingEnemies = @ \ {enemyId}]

\* The score of assignPatrolPoint for a point at the given distance, before the
\* random part, in fifths of a point (so that (dist - 400) / 5 stays whole).
PatrolScore(currentPos, point) ==
  LET distSq == DistanceSq(currentPos.x, currentPos.y, point.x, point.y)
      dist == Distance(currentPos.x, currentPos.y, point.x, point.y)
  IN  IF distSq < 100 * 100 THEN 5 * 100 - 5 * (100 - dist)
      ELSE IF distSq > 400 * 400 THEN 5 * 100 - (dist - 400)
      ELSE 5 * 100

\* The forEach of assignPatrolPoint from index i on: the best index so far
\* (-1 for none) and its score; a later point wins only with a higher score.
RECURSIVE BestPatrolIndex(_, _, _, _, _, _, _)
BestPatrolIndex(points, assignedIndices, currentPos, draws, i, bestIndex, bestScore) ==
  IF i >= Len(points) THEN bestIndex
  ELSE IF i \in assignedIndices
  THEN BestPatrolIndex(points, assignedIndices, currentPos, draws, i + 1, bestIndex, bestScore)
  ELSE LET score == PatrolScore(currentPos, points[i + 1]) + draws[i]
       IN  IF bestIndex = -1 \/ score > bestScore
           THEN BestPatrolIndex(points, assignedIndices, currentPos, draws, i + 1, i, score)
           ELSE BestPatrolIndex(points, assignedIndices, currentPos, draws, i + 1,
                                bestIndex, bestScore)

\* assignPatrolPoint(enemyId, currentPos); draws[i] is Math.random() * 30 of point
\* i in fifths, randomIndex is Math.floor(Math.random() * patrolPoints.length).
\* assignPatrolPoint that scores every point of the pool, assigned or not.
assignPatrolPointAnyPoint(bb, enemyId, currentPos, draws, randomIndex) ==
  LET bestIndex == BestPatrolIndex(bb.patrolPoints, {}, currentPos, draws, 0, -1, 0)
  IN  IF bestIndex >= 0
      THEN [bb |-> [bb EXCEPT !.assignedPatrolPoints = MapSet(@, enemyId, bestIndex)],
            result |-> bb.patrolPoints[bestIndex + 1]]
      ELSE [bb |-> [bb EXCEPT !.assignedPatrolPoints = MapSet(@, enemyId, randomIndex)],
            result |-> IF randomIndex < Len(bb.patrolPoints)
                       THEN bb.patrolPoints[randomIndex + 1] ELSE NoPosition]

assignPatrolPoint(bb, enemyId, currentPos, draws, randomIndex) ==
  LET assignedIndices == MapValues(bb.assignedPatrolPoints)
      bestIndex == BestPatrolIndex(bb.patrolPoints, assignedIndices, currentPos, draws, 0, -1, 0)
  IN  IF bestIndex >= 0
      THEN [bb |-> [bb EXCEPT !.assignedPatrolPoints = MapSet(@, enemyId, bestIndex)],
            result |-> bb.patrolPoints[bestIndex + 1]]
      ELSE [bb |-> [bb EXCEPT !.assignedPatrolPoints = MapSet(@, enemyId, randomIndex)],
            result |-> IF randomIndex < Len(bb.patrolPoints)
                       THEN bb.patrolPoints[randomIndex + 1] ELSE NoPosition]

\* NaN as a patrol index: what (i + 1) % 0 gives.
NaN == -1

\* getNextPatrolPoint(enemyId) without the modulo.
getNextPatrolPointNoWrap(bb, enemyId) ==
  IF enemyId \notin DOMAIN bb.assignedPatrolPoints
  THEN [bb |-> bb, result |-> NoPosition]
  ELSE LET nextIndex == bb.assignedPatrolPoints[enemyId] + 1
       IN  [bb |-> [bb EXCEPT !.assignedPatrolPoints = MapSet(@, enemyId, nextIndex)],
            result |-> IF nextIndex < Len(bb.patrolPoints)
                       THEN bb.patrolPoints[nextIndex + 1] ELSE NoPosition]

\* getNextPatrolPoint(enemyId)
getNextPatrolPoint(bb, enemyId) ==
  IF enemyId \notin DOMAIN bb.assignedPatrolPoints
  THEN [bb |-> bb, result |-> NoPosition]
  ELSE LET currentIndex == bb.assignedPatrolPoints[enemyId]
           nextIndex == IF currentIndex = NaN \/ Len(bb.patrolPoints) = 0 THEN NaN
                        ELSE (currentIndex + 1) % Len(bb.patrolPoints)
       IN  [bb |-> [bb EXCEPT !.assignedPatrolPoints = MapSet(@, enemyId, nextIndex)],
            result |-> IF nextIndex = NaN THEN NoPosition ELSE bb.patrolPoints[nextIndex + 1]]

\* What _generateWalkablePatrolPoints(count) can return: at most count points of
\* the play field, each safely walkable and at least 100 away from the patrol
\* points and from the points generated before it.
IsGenerated(bb, level, count, points) ==
  LET margin == 80
  IN  /\ Len(points) <= count
      /\ \A i \in 1..Len(points) :
           /\ points[i].x >= margin /\ points[i].x < WIDTH - margin
           /\ points[i].y >= margin /\ points[i].y < HEIGHT - margin
           /\ _isPositionSafelyWalkable(points[i], level)
           /\ \A q \in {bb.patrolPoints[k] : k \in 1..Len(bb.patrolPoints)}
                       \cup {points[k] : k \in 1..(i - 1)} :
                DistanceSq(points[i].x, points[i].y, q.x, q.y) >= 100 * 100

\* _validatePatrolPoints(); generated is the list _generateWalkablePatrolPoints gives.
_validatePatrolPoints(bb, level, generated) ==
  IF ~bb.patrolPointsNeedValidation THEN bb
  ELSE IF ~level.hasMap THEN bb
  ELSE LET validPoints == SelectSeq(bb.patrolPoints,
                                    LAMBDA point : _isPositionSafelyWalkable(point, level))
       IN  [bb EXCEPT !.patrolPoints = IF Len(validPoints) < 5 THEN validPoints \o generated
                                       ELSE validPoints,
                      !.patrolPointsNeedValidation = FALSE]

Min(a, b) == IF a < b THEN a ELSE b
Max(a, b) == IF a > b THEN a ELSE b

\* calculateThreatLevel(player) without the final Math.min / Math.max.
calculateThreatLevelUnclamped(bb, player) ==
  IF player = NoTank \/ player.isDestroyed THEN [bb EXCEPT !.threatLevel = 0]
  ELSE [bb EXCEPT !.threatLevel = 50 + player.starLevel * 10 + player.lives * 5
                     + (IF Cardinality(DOMAIN bb.enemyPositions) < 2 THEN 20 ELSE 0)]

\* calculateThreatLevel(player)
calculateThreatLevel(bb, player) ==
  IF player = NoTank \/ player.isDestroyed THEN [bb EXCEPT !.threatLevel = 0]
  ELSE LET threat == 50 + player.starLevel * 10 + player.lives * 5
                     + (IF Cardinality(DOMAIN bb.enemyPositions) < 2 THEN 20 ELSE 0)
       IN  [bb EXCEPT !.threatLevel = Min(100, Max(0, threat))]

\* clear()
clear(bb) ==
  [bb EXCEPT !.playerLastKnownPosition = NoPosition,
             !.playerLastSeenTime = 0,
             !.playerVelocity = Pos(0, 0),
             !.assignedTargets = EmptyMap,
             !.flankingPositions = EmptyMap,
             !.enemyPositions = EmptyMap,
             !.attackingEnemies = {},
             !.assignedPatrolPoints = EmptyMap,
             !.threatLevel = 0]

\* update(), called once a frame
bbUpdate(bb, sc, generated) ==
  LET validated == IF bb.patrolPointsNeedValidation
                   THEN _validatePatrolPoints(bb, sc.levelData, generated) ELSE bb
      counted == [validated EXCEPT !.activeEnemyCount = Cardinality(DOMAIN validated.enemyPositions)]
  IN  IF sc.player # NoTank /\ ~sc.player.isDestroyed
      THEN calculateThreatLevel(updatePlayerInfo(counted, sc.player, sc.time), sc.player)
      ELSE counted

(***************************************************************************)
(* SpecBB: the public methods of one AIBlackboard, called in any order     *)
(***************************************************************************)
Agents == {"enemy_1", "enemy_2", "enemy_3"}

\* The agents that ask for flank positions, and the one agent that also patrols,
\* reports its position and attacks.
FlankCallers == {"enemy_1", "enemy_2"}
TrackedAgents == {"enemy_1"}

Targets == {"player", "base"}

\* scene.player
ThePlayer == [x |-> 400, y |-> 400, direction |-> "up", velocity |-> Pos(0, 0),
              isDestroyed |-> FALSE, starLevel |-> 0, lives |-> 3]

\* What updatePlayerInfo is called with.
PlayerSightings == {NoTank, ThePlayer}

\* scene.base
TheBase == [x |-> 400, y |-> 784, isDestroyed |-> FALSE]

\* A level with a brick under the flank position below the player and steel
\* under the first patrol point.
BrickLevel == [hasMap |-> TRUE, size |-> 26,
               tiles |-> (<<12, 16>> :> BRICK) @@ (<<2, 2>> :> STEEL)]

SceneLevels == {BrickLevel}

\* Where the calling agent stands.
EnemySpots == {Pos(400, 200)}

\* The random parts of assignPatrolPoint for n points: none, or the last point
\* drawing nearly 30.
DrawVectors(n) == {[i \in 0..(n - 1) |-> IF i = k THEN 149 ELSE 0] : k \in {-1, n - 1}}

\* The lists _generateWalkablePatrolPoints may give here: every attempt failed.
GeneratedLists == {<< >>}

BBApply(r, op, enemyId, arg) ==
  /\ blackboard' = r.bb
  /\ bbOp' = [op |-> op, enemyId |-> enemyId, arg |-> arg, result |-> r.result,
              before |-> blackboard]
  /\ UNCHANGED scene
  /\ UNCHANGED notBbVars

Void(bb) == [bb |-> bb, result |-> Null]

BBUpdatePlayerInfo(player) ==
  BBApply(Void(updatePlayerInfo(blackboard, player, scene.time)), "updatePlayerInfo", Null, Null)

BBAssignTarget(enemyId, preferredTarget) ==
  BBApply(assignTarget(blackboard, enemyId, preferredTarget), "assignTarget", enemyId,
          preferredTarget)

BBRemoveTargetAssignment(enemyId) ==
  BBApply(Void(removeTargetAssignment(blackboard, enemyId)), "removeTargetAssignment",
          enemyId, Null)

BBCalculateFlankingPosition(enemyId, enemyPos) ==
  BBApply(calculateFlankingPosition(blackboard, enemyId, enemyPos, scene.levelData),
          "calculateFlankingPosition", enemyId, Null)

BBUpdateEnemyPosition(enemyId, position) ==
  BBApply(Void(updateEnemyPosition(blackboard, enemyId, position, scene.time)),
          "updateEnemyPosition", enemyId, Null)

BBMarkAsAttacking(enemyId) ==
  BBApply(Void(markAsAttacking(blackboard, enemyId)), "markAsAttacking", enemyId, Null)

BBMarkAsNotAttacking(enemyId) ==
  BBApply(Void(markAsNotAttacking(blackboard, enemyId)), "markAsNotAttacking", enemyId, Null)

BBAssignPatrolPoint(enemyId, currentPos, draws, randomIndex) ==
  BBApply(assignPatrolPoint(blackboard, enemyId, currentPos, draws, randomIndex),
          "assignPatrolPoint", enemyId, currentPos)

BBGetNextPatrolPoint(enemyId) ==
  BBApply(getNextPatrolPoint(blackboard, enemyId), "getNextPatrolPoint", enemyId, Null)

BBClear == BBApply(Void(clear(blackboard)), "clear", Null, Null)

BBUpdate(generated) ==
  /\ IsGenerated(blackboard, scene.levelData, 10, generated)
  /\ BBApply(Void(bbUpdate(blackboard, scene, generated)), "update", Null, Null)

\* A new blackboard in a scene with a player and a base.
BBInit ==
  /\ \E level \in SceneLevels :
       scene = [time |-> 0, levelData |-> level, player |-> ThePlayer, base |-> TheBase]
  /\ blackboard = NewBlackboard
  /\ bbOp = NoCall
  /\ enemies = NoEnemies
  /\ fpMap = << >>
  /\ fpStart = [x |-> 0, y |-> 0]
  /\ fpGoal = [x |-> 0, y |-> 0]
  /\ openList = << >>
  /\ closedList = {}
  /\ fpResult = NullPath
  /\ fpPc = "idle"
  /\ currentPath = NullPath
  /\ objectPool = NoPool
  /\ poolOp = NoCall
  /\ steering = NoSteering
  /\ stateMachine = [states |-> << >>, currentState |-> Null, previousState |-> Null]
  /\ smCalls = << >>
  /\ smOutcome = "void"
  /\ smWarned = FALSE
  /\ smOp = [op |-> "new", name |-> Null,
             before |-> [states |-> << >>, currentState |-> Null, previousState |-> Null]]

BBNext ==
  \/ \E player \in PlayerSightings : BBUpdatePlayerInfo(player)
  \/ \E enemyId \in Agents, target \in Targets : BBAssignTarget(enemyId, target)
  \/ \E enemyId \in Agents : BBRemoveTargetAssignment(enemyId)
  \/ \E enemyId \in FlankCallers, pos \in EnemySpots : BBCalculateFlankingPosition(enemyId, pos)
  \/ \E enemyId \in TrackedAgents, pos \in EnemySpots : BBUpdateEnemyPosition(enemyId, pos)
  \/ \E enemyId \in TrackedAgents : BBMarkAsAttacking(enemyId)
  \/ \E enemyId \in TrackedAgents : BBMarkAsNotAttacking(enemyId)
  \/ \E enemyId \in TrackedAgents, pos \in EnemySpots :
       \E draws \in DrawVectors(Len(blackboard.patrolPoints)) :
         BBAssignPatrolPoint(enemyId, pos, draws, 0)
  \/ BBClear

SpecBB == BBInit /\ [][BBNext]_vars

\* The agents that hold target t on blackboard bb.
AssignedTo(bb, t) == {a \in DOMAIN bb.assignedTargets : bb.assignedTargets[a] = t}

\* The per-agent containers of bb that hold an entry for enemyId.
HeldBy(bb, enemyId) ==
  {c \in {"assignedTargets", "flankingPositions", "assignedPatrolPoints", "enemyPositions"} :
     enemyId \in DOMAIN bb[c]}
  \cup (IF enemyId \in bb.attackingEnemies THEN {"attackingEnemies"} ELSE {})

\* C2: after removeTargetAssignment(enemyId) the id is in none of the per-agent
\* containers: target assignments, flanking slots, patrol indices, positions and
\* the attacking set.
C2_RemovePurgesEveryContainer ==
  (bbOp.op = "removeTargetAssignment") => HeldBy(blackboard, bbOp.enemyId) = {}

\* The removed agent held an entry in all five containers, and another agent
\* keeps its own entries.
C2_Witness ==
  /\ bbOp.op = "removeTargetAssignment"
  /\ Cardinality(HeldBy(bbOp.before, bbOp.enemyId)) = 5
  /\ HeldBy(blackboard, bbOp.enemyId) = {}
  /\ \E other \in Agents \ {bbOp.enemyId} :
       {"assignedTargets", "flankingPositions"} \subseteq HeldBy(blackboard, other)

\* C4: assignTarget returns and records "base" when, before the call, at least
\* two agents are assigned "player" and none "base"; otherwise it returns and
\* records the requested preference.
C4_AssignTargetBalances ==
  (bbOp.op = "assignTarget")
    => LET expected == IF Cardinality(AssignedTo(bbOp.before, "player")) >= 2
                          /\ AssignedTo(bbOp.before, "base") = {}
                       THEN "base" ELSE bbOp.arg
       IN  /\ bbOp.result = expected
           /\ bbOp.enemyId \in DOMAIN blackboard.assignedTargets
           /\ blackboard.assignedTargets[bbOp.enemyId] = expected

\* A request for "player" is turned into "base".
C4_Witness ==
  /\ bbOp.op = "assignTarget"
  /\ bbOp.arg = "player"
  /\ Cardinality(AssignedTo(bbOp.before, "player")) >= 2
  /\ AssignedTo(bbOp.before, "base") = {}
  /\ bbOp.result = "base"
  /\ blackboard.assignedTargets[bbOp.enemyId] = "base"

\* C5: it is never the case that three or more agents are assigned "player"
\* while no agent is assigned "base".
C5_NoConcentrationOnPlayer ==
  ~(Cardinality(AssignedTo(blackboard, "player")) >= 3 /\ AssignedTo(blackboard, "base") = {})

(***************************************************************************)
(* EnemyAI and EnemyTank                                                   *)
(***************************************************************************)
\* AI_CONFIG; Math.random() and the health ratio are kept in hundredths.
DETECTION_RANGE == 300
ATTACK_RANGE == 150
RETREAT_HEALTH_PERCENT == 30
STATE_CHANGE_COOLDOWN == 2000
SMART_PATROL_ENABLED == TRUE
FLANKING_ENABLED == TRUE
TEAM_COORDINATION_ENABLED == TRUE

\* ENEMY_TYPES[type].health
EnemyHealth(type) ==
  CASE type = "BASIC" -> 1 [] type = "FAST" -> 1 [] type = "POWER" -> 2 [] type = "ARMOR" -> 4

\* _determineTargetPriority(tankType), in hundredths
_determineTargetPriority(tankType) ==
  CASE tankType = "BASIC" -> [player |-> 70, base |-> 30]
    [] tankType = "FAST" -> [player |-> 40, base |-> 60]
    [] tankType = "POWER" -> [player |-> 80, base |-> 20]
    [] tankType = "ARMOR" -> [player |-> 80, base |-> 20]
    [] OTHER -> [player |-> 70, base |-> 30]

\* _initializeStates(): the four states, each with enter, update and exit.
AIStates ==
  [n \in {"patrol", "chase", "attack", "retreat"} |->
     [enter |-> TRUE, update |-> TRUE, exit |-> TRUE]]

\* An enemy that has not been spawned yet.
QueuedEnemy(type) ==
  [ status |-> "queued", enemyType |-> type, x |-> 0, y |-> 0,
    health |-> EnemyHealth(type), maxHealth |-> EnemyHealth(type),
    aiController |-> FALSE, currentState |-> Null, previousState |-> Null,
    currentTarget |-> Null, isFlankingMode |-> FALSE, flankingTarget |-> NoPosition,
    currentPatrolTarget |-> NoPosition, lastStateChange |-> 0,
    isFrozen |-> FALSE, moveCommands |-> 0, tickMoves |-> 0 ]

\* _assignNewPatrolTarget(); st is the controller with the blackboard it shares,
\* rnd the random values drawn: the parts of the patrol scores, the fallback
\* index, the point of _generateRandomPatrolTarget, and the two rolls of
\* _selectTarget in hundredths.
PatrolTargetFrom(st, r) ==
  [ai |-> [st.ai EXCEPT !.currentPatrolTarget = r.result], bb |-> r.bb]

_assignNewPatrolTarget(st, id, rnd) ==
  IF st.bb # NoBlackboard /\ SMART_PATROL_ENABLED
  THEN PatrolTargetFrom(st, assignPatrolPoint(st.bb, id, Pos(st.ai.x, st.ai.y),
                                              rnd.draws, rnd.index))
  ELSE [st EXCEPT !.ai.currentPatrolTarget = rnd.patrolTarget]

\* _evaluateFlankingOpportunity(): flankPos is what calculateFlankingPosition
\* returned, with the blackboard it left.
FlankingFrom(st, flankPos) ==
  [ai |-> [st.ai EXCEPT !.isFlankingMode = (flankPos.result # NoPosition),
                        !.flankingTarget = flankPos.result],
   bb |-> flankPos.bb]

_evaluateFlankingOpportunity(st, id, level) ==
  IF ~FLANKING_ENABLED \/ st.ai.currentTarget # "player"
  THEN [st EXCEPT !.ai.isFlankingMode = FALSE, !.ai.flankingTarget = NoPosition]
  ELSE IF st.bb = NoBlackboard
  THEN [st EXCEPT !.ai.isFlankingMode = FALSE]
  ELSE IF ~canJoinFlanking(st.bb)
  THEN [st EXCEPT !.ai.isFlankingMode = FALSE]
  ELSE FlankingFrom(st, calculateFlankingPosition(st.bb, id, Pos(st.ai.x, st.ai.y), level))

\* The blackboard calls of the chase and attack handlers, made only if the
\* scene has a blackboard.
MarkedAttacking(st, id) ==
  IF st.bb # NoBlackboard THEN [st EXCEPT !.bb = markAsAttacking(st.bb, id)] ELSE st

MarkedNotAttacking(st, id) ==
  IF st.bb # NoBlackboard THEN [st EXCEPT !.bb = markAsNotAttacking(st.bb, id)] ELSE st

\* The enter and exit handlers of _initializeStates().
Handler(st, call, id, level, rnd) ==
  CASE call = Call("enter", "patrol") -> _assignNewPatrolTarget(st, id, rnd)
    [] call = Call("exit", "patrol") -> [st EXCEPT !.ai.currentPatrolTarget = NoPosition]
    [] call = Call("enter", "chase") ->
         MarkedAttacking(_evaluateFlankingOpportunity(st, id, level), id)
    [] call = Call("exit", "chase") ->
         MarkedNotAttacking([st EXCEPT !.ai.isFlankingMode = FALSE,
                                       !.ai.flankingTarget = NoPosition], id)
    [] call = Call("enter", "attack") ->
         MarkedAttacking(st, id)
    [] call = Call("exit", "attack") ->
         MarkedNotAttacking(st, id)
    [] OTHER -> st

RECURSIVE RunHandlers(_, _, _, _, _, _)
RunHandlers(st, calls, i, id, level, rnd) ==
  IF i > Len(calls) THEN st
  ELSE RunHandlers(Handler(st, calls[i], id, level, rnd), calls, i + 1, id, level, rnd)

\* this.stateMachine.setState(name) with the handlers it runs; no handler reads
\* the machine's current state.
aiSetState(st, name, id, level, rnd) ==
  LET r == setState([states |-> AIStates, currentState |-> st.ai.currentState,
                     previousState |-> st.ai.previousState], name)
      moved == [st EXCEPT !.ai.currentState = r.sm.currentState,
                          !.ai.previousState = r.sm.previousState]
  IN  RunHandlers(moved, r.calls, 1, id, level, rnd)

\* _registerToBlackboard()
_registerToBlackboard(st, id, now) ==
  IF st.bb # NoBlackboard /\ TEAM_COORDINATION_ENABLED
  THEN LET preferredTarget == IF _determineTargetPriority(st.ai.enemyType).player > 50
                              THEN "player" ELSE "base"
           assigned == assignTarget(st.bb, id, preferredTarget).bb
       IN  [st EXCEPT !.bb = updateEnemyPosition(assigned, id, Pos(st.ai.x, st.ai.y), now)]
  ELSE st

\* unregisterFromBlackboard()
unregisterFromBlackboard(st, id) ==
  IF st.bb # NoBlackboard THEN [st EXCEPT !.bb = removeTargetAssignment(st.bb, id)] ELSE st

\* _updateBlackboardPosition()
_updateBlackboardPosition(st, id, now) ==
  IF st.bb # NoBlackboard /\ TEAM_COORDINATION_ENABLED
  THEN [st EXCEPT !.bb = updateEnemyPosition(st.bb, id, Pos(st.ai.x, st.ai.y), now)]
  ELSE st

\* _selectTarget that keeps its target without looking whether it is destroyed.
_selectTargetKeepsAny(ai, player, base, rnd) ==
  LET playerAvailable == player # NoTank /\ ~player.isDestroyed
      baseAvailable == base # NoTank /\ ~base.isDestroyed
  IN  IF ai.currentTarget # Null /\ rnd.keepRoll < 80 THEN ai
      ELSE IF ~playerAvailable /\ ~baseAvailable THEN [ai EXCEPT !.currentTarget = Null]
      ELSE IF ~playerAvailable THEN [ai EXCEPT !.currentTarget = "base"]
      ELSE IF ~baseAvailable THEN [ai EXCEPT !.currentTarget = "player"]
      ELSE IF rnd.roll < _determineTargetPriority(ai.enemyType).player
      THEN [ai EXCEPT !.currentTarget = "player"]
      ELSE [ai EXCEPT !.currentTarget = "base"]

\* _selectTarget(player, base)
_selectTarget(ai, player, base, rnd) ==
  LET target == IF ai.currentTarget = "player" THEN player ELSE base
      keeps == /\ ai.currentTarget # Null
               /\ target # NoTank /\ ~target.isDestroyed
               /\ rnd.keepRoll < 80
      playerAvailable == player # NoTank /\ ~player.isDestroyed
      baseAvailable == base # NoTank /\ ~base.isDestroyed
  IN  IF keeps THEN ai
      ELSE IF ~playerAvailable /\ ~baseAvailable THEN [ai EXCEPT !.currentTarget = Null]
      ELSE IF ~playerAvailable THEN [ai EXCEPT !.currentTarget = "base"]
      ELSE IF ~baseAvailable THEN [ai EXCEPT !.currentTarget = "player"]
      ELSE IF rnd.roll < _determineTargetPriority(ai.enemyType).player
      THEN [ai EXCEPT !.currentTarget = "player"]
      ELSE [ai EXCEPT !.currentTarget = "base"]

\* _evaluateState with the attack row of the table before the retreat row.
_evaluateStateAttackFirst(st, id, sc, rnd) ==
  LET chosen == [st EXCEPT !.ai = _selectTarget(st.ai, sc.player, sc.base, rnd)]
      target == IF chosen.ai.currentTarget = "player" THEN sc.player ELSE sc.base
      noTarget == chosen.ai.currentTarget = Null
      targetGone == ~noTarget /\ (target = NoTank \/ target.isDestroyed)
      distanceSq == DistanceSq(chosen.ai.x, chosen.ai.y, target.x, target.y)
      name == IF noTarget \/ targetGone THEN "patrol"
              ELSE IF distanceSq < ATTACK_RANGE * ATTACK_RANGE THEN "attack"
              ELSE IF chosen.ai.health * 100 < RETREAT_HEALTH_PERCENT * chosen.ai.maxHealth
                      /\ chosen.ai.currentTarget = "player"
              THEN "retreat"
              ELSE IF distanceSq < DETECTION_RANGE * DETECTION_RANGE
                      \/ chosen.ai.currentTarget = "base"
              THEN "chase"
              ELSE "patrol"
  IN  aiSetState(IF targetGone THEN [chosen EXCEPT !.ai.currentTarget = Null] ELSE chosen,
                 name, id, sc.levelData, rnd)

\* _evaluateState that chases a live target at any distance.
_evaluateStateChaseAnyDistance(st, id, sc, rnd) ==
  LET chosen == [st EXCEPT !.ai = _selectTarget(st.ai, sc.player, sc.base, rnd)]
      target == IF chosen.ai.currentTarget = "player" THEN sc.player ELSE sc.base
      noTarget == chosen.ai.currentTarget = Null
      targetGone == ~noTarget /\ (target = NoTank \/ target.isDestroyed)
      distanceSq == DistanceSq(chosen.ai.x, chosen.ai.y, target.x, target.y)
      name == IF noTarget \/ targetGone THEN "patrol"
              ELSE IF chosen.ai.health * 100 < RETREAT_HEALTH_PERCENT * chosen.ai.maxHealth
                      /\ chosen.ai.currentTarget = "player"
              THEN "retreat"
              ELSE IF distanceSq < ATTACK_RANGE * ATTACK_RANGE THEN "attack"
              ELSE "chase"
  IN  aiSetState(IF targetGone THEN [chosen EXCEPT !.ai.currentTarget = Null] ELSE chosen,
                 name, id, sc.levelData, rnd)

\* _evaluateState(): the state its branches choose, then the one setState call
\* that every branch ends in.
_evaluateState(st, id, sc, rnd) ==
  LET chosen == [st EXCEPT !.ai = _selectTarget(st.ai, sc.player, sc.base, rnd)]
      target == IF chosen.ai.currentTarget = "player" THEN sc.player ELSE sc.base
      noTarget == chosen.ai.currentTarget = Null
      targetGone == ~noTarget /\ (target = NoTank \/ target.isDestroyed)
      distanceSq == DistanceSq(chosen.ai.x, chosen.ai.y, target.x, target.y)
      name == IF noTarget \/ targetGone THEN "patrol"
              ELSE IF chosen.ai.health * 100 < RETREAT_HEALTH_PERCENT * chosen.ai.maxHealth
                      /\ chosen.ai.currentTarget = "player"
              THEN "retreat"
              ELSE IF distanceSq < ATTACK_RANGE * ATTACK_RANGE THEN "attack"
              ELSE IF distanceSq < DETECTION_RANGE * DETECTION_RANGE
                      \/ chosen.ai.currentTarget = "base"
              THEN "chase"
              ELSE "patrol"
  IN  aiSetState(IF targetGone THEN [chosen EXCEPT !.ai.currentTarget = Null] ELSE chosen,
                 name, id, sc.levelData, rnd)

\* this.tank.move(direction): one more movement command in this tick.
tankMove(st) == [st EXCEPT !.ai.moveCommands = @ + 1]

\* update(delta) that evaluates in every tick.
aiUpdateEveryTick(st, id, sc, rnd) ==
  tankMove([_evaluateState(_updateBlackboardPosition(st, id, sc.time), id, sc, rnd)
              EXCEPT !.ai.lastStateChange = sc.time])

\* update(delta): the blackboard position, the evaluation gate, the
\* evaluation and the one call of tank.move. The steering and the shooting of
\* update call no tank.move; the tank's direction, velocity and bullets are
\* not part of this model's state.
aiUpdate(st, id, sc, rnd) ==
  tankMove(LET placed == _updateBlackboardPosition(st, id, sc.time)
           IN  IF sc.time - placed.ai.lastStateChange > STATE_CHANGE_COOLDOWN
               THEN [_evaluateState(placed, id, sc, rnd) EXCEPT !.ai.lastStateChange = sc.time]
               ELSE placed)

\* onTankHit(): a random other direction, handed to tank.move at once.
onTankHit(st) == tankMove(st)

\* _executeFlankingMove() as far as the flank slot and the state go.
_executeFlankingMove(st, id, level, rnd) ==
  IF st.ai.flankingTarget = NoPosition THEN [st EXCEPT !.ai.isFlankingMode = FALSE]
  ELSE IF DistanceSq(st.ai.x, st.ai.y, st.ai.flankingTarget.x, st.ai.flankingTarget.y) < 30 * 30
  THEN LET left == [st EXCEPT !.ai.isFlankingMode = FALSE, !.ai.flankingTarget = NoPosition]
           released == IF left.bb # NoBlackboard
                       THEN [left EXCEPT !.bb.flankingPositions = MapDelete(@, id)] ELSE left
       IN  aiSetState(released, "attack", id, level, rnd)
  ELSE st

\* _getCurrentTarget()
_getCurrentTarget(ai, sc) ==
  IF ai.currentTarget = "player" THEN sc.player
  ELSE IF ai.currentTarget = "base" THEN sc.base
  ELSE NoTank

\* stateMachine.update(delta): the update handler of the current state.
aiStateUpdate(st, id, sc, rnd) ==
  IF st.ai.currentState \in {"chase", "attack", "retreat"}
     /\ _getCurrentTarget(st.ai, sc) = NoTank
  THEN aiSetState(st, "patrol", id, sc.levelData, rnd)
  ELSE IF st.ai.currentState = "chase" /\ st.ai.isFlankingMode
          /\ st.ai.flankingTarget # NoPosition
  THEN _executeFlankingMove(st, id, sc.levelData, rnd)
  ELSE st

\* new EnemyTank(scene, x, y, type) and new EnemyAI(scene, enemy)
NewEnemy(type, spot, id, bb, sc, rnd) ==
  LET tank == [QueuedEnemy(type) EXCEPT !.status = "active", !.x = spot.x, !.y = spot.y,
                                        !.aiController = TRUE]
      inPatrol == aiSetState([ai |-> tank, bb |-> bb], "patrol", id, sc.levelData, rnd)
  IN  _registerToBlackboard(inPatrol, id, sc.time)

\* EnemyTank.takeDamage(damage), with _onDeath() and destroy(): the tank drops
\* its controller and leaves the scene; what its fields held is read no more.
takeDamage(tank, damage) ==
  IF tank.status = "destroyed" THEN tank
  ELSE IF tank.health - damage <= 0
  THEN [QueuedEnemy(tank.enemyType) EXCEPT !.health = tank.health - damage,
                                           !.status = "destroyed"]
  ELSE [tank EXCEPT !.health = tank.health - damage]

(***************************************************************************)
(* Spec: the enemies of one GameScene sharing its blackboard                *)
(***************************************************************************)
\* GameScene.maxEnemiesOnScreen
maxEnemiesOnScreen == 3

\* The ids of the enemies in the order they are spawned, and enemyQueue.
SpawnOrder == <<"enemy_1", "enemy_2", "enemy_3">>
EnemyQueue == <<"BASIC", "BASIC", "FAST">>

\* levelData.enemySpawns in world coordinates: a spawn tile within detection
\* range of the player.
SpawnSpots == {Pos(12 * TILE_SIZE + TILE_SIZE \div 2, 6 * TILE_SIZE + TILE_SIZE \div 2)}

\* Where the physics may have carried a tank: back on the spawn tile, or on
\* the flank position left of the player.
TankSpots == SpawnSpots \cup {Pos(280, 400)}

\* The clock of the frames that are looked at: they lie further apart than the
\* evaluation cooldown.
ClockStep == 2500
MaxTicks == 2

\* The random values of one call.
RandomDraws(n) ==
  {[draws |-> [i \in 0..(n - 1) |-> 0], index |-> 0, patrolTarget |-> Pos(416, 416),
    keepRoll |-> kr[1], roll |-> kr[2]] : kr \in {<<10, 10>>, <<90, 10>>, <<90, 90>>}}

PatrolPointCount == IF blackboard = NoBlackboard THEN 0 ELSE Len(blackboard.patrolPoints)

ActiveEnemies == {id \in DOMAIN enemies : enemies[id].status = "active"}
QueuedEnemies ==
  {i \in 1..Len(SpawnOrder) :
     SpawnOrder[i] \in DOMAIN enemies /\ enemies[SpawnOrder[i]].status = "queued"}

\* The controller of enemy id together with the shared blackboard.
Controller(id) == [ai |-> enemies[id], bb |-> blackboard]

SquadApply(st, id) ==
  /\ enemies' = [enemies EXCEPT ![id] = st.ai]
  /\ blackboard' = st.bb
  /\ UNCHANGED scene
  /\ UNCHANGED notSceneVars

\* GameScene.spawnNextEnemy(): the next enemy of the queue, if fewer than
\* maxEnemiesOnScreen are active.
SpawnNextEnemy(spot, rnd) ==
  /\ QueuedEnemies # {}
  /\ Cardinality(ActiveEnemies) < maxEnemiesOnScreen
  /\ LET i == CHOOSE k \in QueuedEnemies : \A m \in QueuedEnemies : k <= m
     IN  SquadApply(NewEnemy(enemies[SpawnOrder[i]].enemyType, spot, SpawnOrder[i],
                             blackboard, scene, rnd),
                    SpawnOrder[i])

\* The enemies.getChildren().forEach of GameScene.update from enemy i on:
\* EnemyTank.update and EnemyAI.update of every active enemy, in spawn order.
RECURSIVE UpdateEnemies(_, _, _, _, _), UpdateEnemiesAfter(_, _, _, _, _)
UpdateEnemies(es, bb, i, sc, rnds) ==
  IF i > Len(SpawnOrder) THEN [enemies |-> es, bb |-> bb]
  ELSE LET id == SpawnOrder[i]
       IN  IF /\ id \in DOMAIN es
              /\ es[id].status = "active"
              /\ es[id].aiController
              /\ ~es[id].isFrozen
           THEN UpdateEnemiesAfter(es, aiUpdate([ai |-> es[id], bb |-> bb], id, sc, rnds[id]),
                                   i, sc, rnds)
           ELSE UpdateEnemies(es, bb, i + 1, sc, rnds)

UpdateEnemiesAfter(es, st, i, sc, rnds) ==
  UpdateEnemies([es EXCEPT ![SpawnOrder[i]] = st.ai], st.bb, i + 1, sc, rnds)

\* The tick ends: what each tank was told to do in it.
EndTick(es) ==
  [id \in DOMAIN es |->
     IF es[id].status = "active"
     THEN [es[id] EXCEPT !.tickMoves = es[id].moveCommands, !.moveCommands = 0]
     ELSE es[id]]

FrameApply(sc, r) ==
  /\ scene' = sc
  /\ enemies' = EndTick(r.enemies)
  /\ blackboard' = r.bb
  /\ UNCHANGED notSceneVars

\* One frame: the clock has advanced, the blackboard (if the scene has one) is
\* updated, then GameScene.update updates the enemies.
Frame(rnds, generated) ==
  /\ scene.time < MaxTicks * ClockStep
  /\ blackboard # NoBlackboard => IsGenerated(blackboard, scene.levelData, 10, generated)
  /\ LET sc == [scene EXCEPT !.time = @ + ClockStep]
     IN  FrameApply(sc, UpdateEnemies(enemies,
                                      IF blackboard = NoBlackboard THEN NoBlackboard
                                      ELSE bbUpdate(blackboard, sc, generated),
                                      1, sc, rnds))

\* The physics step has moved the tank.
TankMoved(id, spot) ==
  /\ enemies[id].status = "active"
  /\ Pos(enemies[id].x, enemies[id].y) # spot
  /\ SquadApply([ai |-> [enemies[id] EXCEPT !.x = spot.x, !.y = spot.y], bb |-> blackboard], id)

\* A bullet hits the enemy: EnemyTank.takeDamage(1), on the last hit with
\* _onDeath() and destroy().
EnemyHit(id) ==
  /\ enemies[id].status = "active"
  /\ SquadApply([ai |-> takeDamage(enemies[id], 1), bb |-> blackboard], id)

\* stateMachine.update(delta) of one controller.
StateMachineUpdate(id, rnd) ==
  /\ enemies[id].status = "active"
  /\ enemies[id].aiController
  /\ SquadApply(aiStateUpdate(Controller(id), id, scene, rnd), id)

\* EnemyAI.destroy(), called as its comment says when the enemy is destroyed:
\* the controller unregisters, then the tank drops it and leaves the scene.
AIDestroy(id) ==
  /\ enemies[id].status = "active"
  /\ enemies[id].aiController
  /\ LET st == unregisterFromBlackboard(Controller(id), id)
     IN  SquadApply([st EXCEPT !.ai = takeDamage(st.ai, st.ai.health)], id)

\* A scene with a player, a base and the enemies still queued. It holds the
\* AIBlackboard that EnemyAI._getBlackboard() looks for in scene.aiBlackboard,
\* or, as GameScene.create() leaves it, none.
Init ==
  /\ \E level \in SceneLevels :
       scene = [time |-> 0, levelData |-> level, player |-> ThePlayer, base |-> TheBase]
  /\ blackboard \in {NoBlackboard, NewBlackboard}
  /\ bbOp = NoCall
  /\ enemies = [i \in {SpawnOrder[k] : k \in 1..Len(SpawnOrder)} |->
                  QueuedEnemy(EnemyQueue[CHOOSE k \in 1..Len(SpawnOrder) : SpawnOrder[k] = i])]
  /\ fpMap = << >>
  /\ fpStart = [x |-> 0, y |-> 0]
  /\ fpGoal = [x |-> 0, y |-> 0]
  /\ openList = << >>
  /\ closedList = {}
  /\ fpResult = NullPath
  /\ fpPc = "idle"
  /\ currentPath = NullPath
  /\ objectPool = NoPool
  /\ poolOp = NoCall
  /\ steering = NoSteering
  /\ stateMachine = [states |-> << >>, currentState |-> Null, previousState |-> Null]
  /\ smCalls = << >>
  /\ smOutcome = "void"
  /\ smWarned = FALSE
  /\ smOp = [op |-> "new", name |-> Null,
             before |-> [states |-> << >>, currentState |-> Null, previousState |-> Null]]

\* The game loop as the scene runs it.
Next ==
  \/ \E spot \in SpawnSpots, rnd \in RandomDraws(PatrolPointCount) :
       SpawnNextEnemy(spot, rnd)
  \/ \E rnds \in [DOMAIN enemies -> RandomDraws(PatrolPointCount)] :
       \E generated \in GeneratedLists : Frame(rnds, generated)
  \/ \E id \in DOMAIN enemies, spot \in TankSpots : TankMoved(id, spot)
  \/ \E id \in DOMAIN enemies : EnemyHit(id)

Spec == Init /\ [][Next]_vars

\* The game loop together with the two entry points of a controller that the
\* loop itself does not call.
NextWithEntryPoints ==
  \/ Next
  \/ \E id \in DOMAIN enemies, rnd \in RandomDraws(PatrolPointCount) :
       StateMachineUpdate(id, rnd)
  \/ \E id \in DOMAIN enemies : AIDestroy(id)

SpecEntryPoints == Init /\ [][NextWithEntryPoints]_vars

\* The agents that hold a reserved flanking slot.
FlankingAgents ==
  IF blackboard = NoBlackboard THEN {} ELSE DOMAIN blackboard.flankingPositions

EnemyTypes == {"BASIC", "FAST", "POWER", "ARMOR"}

\* The tank contacts of one enemy in one physics step.
MaxTankHits == 2

\* Where the physics may have carried the one tank: the spots of the squad and
\* a spot 400 from the player, next to the base.
SoloSpots == TankSpots \cup {Pos(400, 800)}

\* Tank.destroy() of the player: isDestroyed is set.
PlayerDestroyed ==
  /\ ~scene.player.isDestroyed
  /\ scene' = [scene EXCEPT !.player.isDestroyed = TRUE]
  /\ UNCHANGED <<blackboard, enemies>>
  /\ UNCHANGED notSceneVars

\* CollisionSystem.onTankTankCollision of the physics step: the enemy has
\* run into another tank.
OnTankHit(id) ==
  /\ enemies[id].status = "active"
  /\ enemies[id].aiController
  /\ enemies[id].moveCommands < MaxTankHits
  /\ SquadApply(onTankHit(Controller(id)), id)

\* Tank.setFrozen(duration), and the timer that ends it.
SetFrozen(id, frozen) ==
  /\ enemies[id].status = "active"
  /\ enemies[id].isFrozen # frozen
  /\ SquadApply([ai |-> [enemies[id] EXCEPT !.isFrozen = frozen], bb |-> blackboard], id)

\* A level whose queue holds one enemy, of any type.
SoloInit ==
  /\ \E level \in SceneLevels :
       scene = [time |-> 0, levelData |-> level, player |-> ThePlayer, base |-> TheBase]
  /\ blackboard \in {NoBlackboard, NewBlackboard}
  /\ bbOp = NoCall
  /\ \E type \in EnemyTypes : enemies = [i \in {SpawnOrder[1]} |-> QueuedEnemy(type)]
  /\ fpMap = << >>
  /\ fpStart = [x |-> 0, y |-> 0]
  /\ fpGoal = [x |-> 0, y |-> 0]
  /\ openList = << >>
  /\ closedList = {}
  /\ fpResult = NullPath
  /\ fpPc = "idle"
  /\ currentPath = NullPath
  /\ objectPool = NoPool
  /\ poolOp = NoCall
  /\ steering = NoSteering
  /\ stateMachine = [states |-> << >>, currentState |-> Null, previousState |-> Null]
  /\ smCalls = << >>
  /\ smOutcome = "void"
  /\ smWarned = FALSE
  /\ smOp = [op |-> "new", name |-> Null,
             before |-> [states |-> << >>, currentState |-> Null, previousState |-> Null]]

SoloNext ==
  \/ \E spot \in SpawnSpots, rnd \in RandomDraws(PatrolPointCount) : SpawnNextEnemy(spot, rnd)
  \/ \E rnds \in [DOMAIN enemies -> RandomDraws(PatrolPointCount)] :
       \E generated \in GeneratedLists : Frame(rnds, generated)
  \/ \E id \in DOMAIN enemies, spot \in SoloSpots : TankMoved(id, spot)
  \/ \E id \in DOMAIN enemies : EnemyHit(id)
  \/ PlayerDestroyed
  \/ \E id \in DOMAIN enemies : OnTankHit(id)
  \/ \E id \in DOMAIN enemies, frozen \in BOOLEAN : SetFrozen(id, frozen)

SpecSolo == SoloInit /\ [][SoloNext]_vars

\* The step is a frame in which the controller of enemy id evaluates its state.
Evaluates(id) ==
  /\ enemies[id].status = "active"
  /\ enemies[id].aiController
  /\ ~enemies[id].isFrozen
  /\ scene'.time # scene.time
  /\ scene'.time - enemies[id].lastStateChange > 2000

\* The decision table: the state for enemy e with its target in scene sc.
DecisionTable(e, sc) ==
  LET target == IF e.currentTarget = "player" THEN sc.player ELSE sc.base
      distanceSq == DistanceSq(e.x, e.y, target.x, target.y)
  IN  IF e.health * 10 < 3 * e.maxHealth /\ e.currentTarget = "player" THEN "retreat"
      ELSE IF distanceSq < 150 * 150 THEN "attack"
      ELSE IF distanceSq < 300 * 300 \/ e.currentTarget = "base" THEN "chase"
      ELSE "patrol"

\* C14: at every evaluation that ends with a live target, the controller's
\* state after the evaluation is the one of the first matching row of the
\* decision table: retreat, else attack, else chase, else patrol.
C14_StateFollowsDecisionTable ==
  [][\A id \in DOMAIN enemies :
       (Evaluates(id) /\ enemies'[id].currentTarget # Null)
         => enemies'[id].currentState = DecisionTable(enemies'[id], scene')]_vars

\* An enemy within attack range of the player it targets has retreated.
C14_Witness ==
  \E id \in DOMAIN enemies :
    /\ enemies[id].status = "active"
    /\ enemies[id].currentState = "retreat"
    /\ enemies[id].currentTarget = "player"
    /\ enemies[id].lastStateChange = scene.time
    /\ DistanceSq(enemies[id].x, enemies[id].y, scene.player.x, scene.player.y) < 150 * 150

\* Enemy id is in patrol, 400 from the live player, and evaluates its state.
PatrolFarFromPlayer(id) ==
  /\ Evaluates(id)
  /\ enemies[id].currentState = "patrol"
  /\ ~scene.player.isDestroyed
  /\ DistanceSq(enemies[id].x, enemies[id].y, scene.player.x, scene.player.y) = 400 * 400

\* C15 as stated: an agent in patrol that is 400 from the player is in chase
\* after its next state evaluation.
C15_FarPatrolTurnsToChase ==
  [][\A id \in DOMAIN enemies :
       PatrolFarFromPlayer(id) => enemies'[id].currentState = "chase"]_vars

\* C15: an agent in patrol that is 400 from the player and targets the player
\* is not in chase after its next evaluation, it stays in patrol or retreats;
\* an agent in patrol at least 150 and less than 300 from the player it
\* targets, with a health fraction of at least 0.3, is in chase after it.
C15_PatrolChasesWithinDetectionRange ==
  [][\A id \in DOMAIN enemies :
       /\ (PatrolFarFromPlayer(id) /\ enemies'[id].currentTarget = "player")
            => enemies'[id].currentState \in {"patrol", "retreat"}
       /\ ( /\ Evaluates(id)
            /\ enemies[id].currentState = "patrol"
            /\ enemies'[id].currentTarget = "player"
            /\ enemies[id].health * 10 >= 3 * enemies[id].maxHealth
            /\ DistanceSq(enemies[id].x, enemies[id].y, scene.player.x, scene.player.y)
                 \in (150 * 150)..(300 * 300 - 1) )
            => enemies'[id].currentState = "chase"]_vars

\* An enemy 400 from the player it targets is in patrol after an evaluation.
C15_Witness ==
  \E id \in DOMAIN enemies :
    /\ enemies[id].status = "active"
    /\ enemies[id].currentState = "patrol"
    /\ enemies[id].currentTarget = "player"
    /\ enemies[id].lastStateChange = scene.time
    /\ scene.time > 0
    /\ ~scene.player.isDestroyed
    /\ DistanceSq(enemies[id].x, enemies[id].y, scene.player.x, scene.player.y) = 400 * 400

\* C16: in each tick the controller issues at most one movement command to
\* its tank, and exactly one in a tick in which its update ran, whatever
\* contacts with other tanks the physics step of the tick reported.
C16_OneMoveCommandPerTick ==
  \A id \in DOMAIN enemies :
    enemies[id].status = "active"
      => /\ enemies[id].moveCommands <= 1
         /\ enemies[id].tickMoves <= 1
         /\ (scene.time > 0 /\ enemies[id].lastStateChange = scene.time)
              => enemies[id].tickMoves = 1

(***************************************************************************)
(* SpecThreat: the threat score of one blackboard for any player           *)
(***************************************************************************)
\* The largest upgrade level and number of lives that are looked at, either sign.
MaxStat == 1000000

StatValues == {-MaxStat, -1, 0, 1, 3, MaxStat}

\* The players calculateThreatLevel is called with.
ThreatPlayers ==
  {NoTank, [ThePlayer EXCEPT !.isDestroyed = TRUE]}
    \cup {[ThePlayer EXCEPT !.starLevel = s, !.lives = l] : s \in StatValues, l \in StatValues}

BBCalculateThreatLevel(player) ==
  BBApply(Void(calculateThreatLevel(blackboard, player)), "calculateThreatLevel", Null, player)

ThreatInit ==
  /\ scene = [time |-> 0, levelData |-> NoLevel, player |-> ThePlayer, base |-> TheBase]
  /\ blackboard = NewBlackboard
  /\ bbOp = NoCall
  /\ enemies = NoEnemies
  /\ fpMap = << >>
  /\ fpStart = [x |-> 0, y |-> 0]
  /\ fpGoal = [x |-> 0, y |-> 0]
  /\ openList = << >>
  /\ closedList = {}
  /\ fpResult = NullPath
  /\ fpPc = "idle"
  /\ currentPath = NullPath
  /\ objectPool = NoPool
  /\ poolOp = NoCall
  /\ steering = NoSteering
  /\ stateMachine = [states |-> << >>, currentState |-> Null, previousState |-> Null]
  /\ smCalls = << >>
  /\ smOutcome = "void"
  /\ smWarned = FALSE
  /\ smOp = [op |-> "new", name |-> Null,
             before |-> [states |-> << >>, currentState |-> Null, previousState |-> Null]]

ThreatNext ==
  \/ \E player \in ThreatPlayers : BBCalculateThreatLevel(player)
  \/ \E enemyId \in FlankCallers, pos \in EnemySpots : BBUpdateEnemyPosition(enemyId, pos)
  \/ \E enemyId \in FlankCallers : BBRemoveTargetAssignment(enemyId)
  \/ BBClear

SpecThreat == ThreatInit /\ [][ThreatNext]_vars

\* The sum calculateThreatLevel clamps.
RawThreat(player, activeCount) ==
  50 + player.starLevel * 10 + player.lives * 5 + (IF activeCount < 2 THEN 20 ELSE 0)

\* C17: whatever upgrade level and lives the player has, negative and very
\* large ones included, and however many agents are active, the threat score of
\* the blackboard lies between 0 and 100 after every calculateThreatLevel and
\* at all other times.
C17_ThreatWithinBounds ==
  /\ blackboard.threatLevel \in 0..100
  /\ bbOp.op = "calculateThreatLevel" /\ bbOp.arg # NoTank /\ ~bbOp.arg.isDestroyed
       => LET raw == RawThreat(bbOp.arg, Cardinality(DOMAIN bbOp.before.enemyPositions))
          IN  blackboard.threatLevel = IF raw < 0 THEN 0 ELSE IF raw > 100 THEN 100 ELSE raw

\* A score computed from a sum below 0 with two active agents.
C17_Witness ==
  /\ bbOp.op = "calculateThreatLevel"
  /\ bbOp.arg # NoTank
  /\ ~bbOp.arg.isDestroyed
  /\ Cardinality(DOMAIN bbOp.before.enemyPositions) = 2
  /\ RawThreat(bbOp.arg, 2) < 0
  /\ bbOp.arg.lives = MaxStat
  /\ blackboard.threatLevel = 0

(***************************************************************************)
(* SpecInfo: the player knowledge of one blackboard while the clock of the *)
(* scene runs                                                              *)
(***************************************************************************)
PLAYER_SPEED == 120

\* scene.time.now goes up to MaxInfoTicks steps of the clock.
MaxInfoTicks == 3

\* The players updatePlayerInfo is called with: none, standing, driving up.
MovingSightings == PlayerSightings \cup {[ThePlayer EXCEPT !.velocity = Pos(0, -PLAYER_SPEED)]}

\* The default predictionTime of predictPlayerPosition, in milliseconds.
PredictionTimes == {300}

BBPredictPlayerPosition(predictionTime) ==
  BBApply([bb |-> blackboard,
           result |-> predictPlayerPosition(blackboard, scene.time, predictionTime)],
          "predictPlayerPosition", Null,
          [predictionTime |-> predictionTime, now |-> scene.time])

\* scene.time.now moves on between two calls.
InfoClock ==
  /\ scene.time < MaxInfoTicks * ClockStep
  /\ scene' = [scene EXCEPT !.time = @ + ClockStep]
  /\ UNCHANGED <<blackboard, bbOp>>
  /\ UNCHANGED notBbVars

InfoInit ==
  /\ scene = [time |-> 0, levelData |-> NoLevel, player |-> ThePlayer, base |-> TheBase]
  /\ blackboard = NewBlackboard
  /\ bbOp = NoCall
  /\ enemies = NoEnemies
  /\ fpMap = << >>
  /\ fpStart = [x |-> 0, y |-> 0]
  /\ fpGoal = [x |-> 0, y |-> 0]
  /\ openList = << >>
  /\ closedList = {}
  /\ fpResult = NullPath
  /\ fpPc = "idle"
  /\ currentPath = NullPath
  /\ objectPool = NoPool
  /\ poolOp = NoCall
  /\ steering = NoSteering
  /\ stateMachine = [states |-> << >>, currentState |-> Null, previousState |-> Null]
  /\ smCalls = << >>
  /\ smOutcome = "void"
  /\ smWarned = FALSE
  /\ smOp = [op |-> "new", name |-> Null,
             before |-> [states |-> << >>, currentState |-> Null, previousState |-> Null]]

InfoNext ==
  \/ \E player \in MovingSightings : BBUpdatePlayerInfo(player)
  \/ \E predictionTime \in PredictionTimes : BBPredictPlayerPosition(predictionTime)
  \/ BBClear
  \/ InfoClock

SpecInfo == InfoInit /\ [][InfoNext]_vars

\* C19: predictPlayerPosition returns the last known position plus the last
\* known velocity times the prediction time exactly while isPlayerInfoValid()
\* is true, and the last known position itself once the information is no
\* longer valid.
C19_ExtrapolatesExactlyWhileValid ==
  bbOp.op = "predictPlayerPosition" /\ bbOp.before.playerLastKnownPosition # NoPosition
    => LET bb == bbOp.before
           ahead == Pos(bb.playerLastKnownPosition.x
                          + (bb.playerVelocity.x * bbOp.arg.predictionTime) \div 1000,
                        bb.playerLastKnownPosition.y
                          + (bb.playerVelocity.y * bbOp.arg.predictionTime) \div 1000)
       IN  bbOp.result = IF isPlayerInfoValid(bb, bbOp.arg.now) THEN ahead
                         ELSE bb.playerLastKnownPosition

(***************************************************************************)
(* SpecPatrol: the patrol points of one blackboard, asked for by the       *)
(* enemies of a level one after the other                                  *)
(***************************************************************************)
\* The number of enemies that ask for a patrol point.
MaxPatrolAgents == 6

\* A level with steel under the eight patrol points along the border of the
\* field: the five inner points stay in the pool once it is validated.
RingLevel == [hasMap |-> TRUE, size |-> 26,
              tiles |-> [c \in {2, 13, 23} \X {2, 13, 23} \ {<<13, 13>>} |-> STEEL]]

\* The id of the i-th enemy.
AgentId(i) == "enemy_" \o ToString(i)

\* The enemies that have asked so far.
PatrolAgentCount == Cardinality(DOMAIN blackboard.assignedPatrolPoints)

\* What Math.floor(Math.random() * patrolPoints.length) can be: the first and
\* the last index.
RandomIndices(n) == IF n = 0 THEN {0} ELSE {0, n - 1}

\* Every index of the pool is assigned (so is every index of an empty pool).
PoolExhausted(bb) ==
  \A i \in 0..(Len(bb.patrolPoints) - 1) : i \in MapValues(bb.assignedPatrolPoints)

\* The next enemy asks for its first patrol point (EnemyAI._assignNewPatrolTarget).
PatrolRegister(currentPos, draws, randomIndex) ==
  /\ PatrolAgentCount < MaxPatrolAgents
  /\ BBAssignPatrolPoint(AgentId(PatrolAgentCount + 1), currentPos, draws, randomIndex)

PatrolInit ==
  /\ \E level \in {RingLevel} :
       scene = [time |-> 0, levelData |-> level, player |-> ThePlayer, base |-> TheBase]
  /\ blackboard = NewBlackboard
  /\ bbOp = NoCall
  /\ enemies = NoEnemies
  /\ fpMap = << >>
  /\ fpStart = [x |-> 0, y |-> 0]
  /\ fpGoal = [x |-> 0, y |-> 0]
  /\ openList = << >>
  /\ closedList = {}
  /\ fpResult = NullPath
  /\ fpPc = "idle"
  /\ currentPath = NullPath
  /\ objectPool = NoPool
  /\ poolOp = NoCall
  /\ steering = NoSteering
  /\ stateMachine = [states |-> << >>, currentState |-> Null, previousState |-> Null]
  /\ smCalls = << >>
  /\ smOutcome = "void"
  /\ smWarned = FALSE
  /\ smOp = [op |-> "new", name |-> Null,
             before |-> [states |-> << >>, currentState |-> Null, previousState |-> Null]]

PatrolNext ==
  \/ \E pos \in EnemySpots, draws \in DrawVectors(Len(blackboard.patrolPoints)),
         randomIndex \in RandomIndices(Len(blackboard.patrolPoints)) :
       PatrolRegister(pos, draws, randomIndex)
  \/ \E enemyId \in {AgentId(1), AgentId(MaxPatrolAgents)} : BBGetNextPatrolPoint(enemyId)
  \/ \E generated \in GeneratedLists : BBUpdate(generated)

SpecPatrol == PatrolInit /\ [][PatrolNext]_vars

\* The indices an agent holds after 1..n further calls of getNextPatrolPoint.
RECURSIVE IndicesVisited(_, _, _)
IndicesVisited(bb, enemyId, n) ==
  IF n = 0 THEN << >>
  ELSE LET next == getNextPatrolPoint(bb, enemyId).bb
       IN  <<next.assignedPatrolPoints[enemyId]>> \o IndicesVisited(next, enemyId, n - 1)

NearbyRadius == 5 * TILE_SIZE

\* C20: an agent that asks for a patrol point when the pool is exhausted, every
\* point of it being assigned or the pool being empty, receives a point near
\* its own current position.
C20_FallbackNearOwnPosition ==
  bbOp.op = "assignPatrolPoint" /\ PoolExhausted(bbOp.before)
    => /\ bbOp.result # NoPosition
       /\ DistanceSq(bbOp.result.x, bbOp.result.y, bbOp.arg.x, bbOp.arg.y)
            <= NearbyRadius * NearbyRadius

(***************************************************************************)
(* SpecFlank: the flanking slots of one blackboard while the player moves  *)
(* and turns and three agents reserve and release in any order             *)
(***************************************************************************)
\* A level with bricks under the candidates above and below a player at
\* (400, 400).
FlankLevel == [hasMap |-> TRUE, size |-> 26,
               tiles |-> (<<12, 16>> :> BRICK) @@ (<<12, 8>> :> BRICK)]

Facings == {"up", "down", "left", "right"}

\* Where the player is seen: two places less than the minimum spacing apart.
PlayerSpots == {Pos(400, 400), Pos(440, 400)}

\* The players updatePlayerInfo is called with.
FlankSightings ==
  {[ThePlayer EXCEPT !.x = p.x, !.y = p.y, !.direction = f] : p \in PlayerSpots, f \in Facings}

FlankInit ==
  /\ scene = [time |-> 0, levelData |-> FlankLevel, player |-> ThePlayer, base |-> TheBase]
  /\ blackboard = NewBlackboard
  /\ bbOp = NoCall
  /\ enemies = NoEnemies
  /\ fpMap = << >>
  /\ fpStart = [x |-> 0, y |-> 0]
  /\ fpGoal = [x |-> 0, y |-> 0]
  /\ openList = << >>
  /\ closedList = {}
  /\ fpResult = NullPath
  /\ fpPc = "idle"
  /\ currentPath = NullPath
  /\ objectPool = NoPool
  /\ poolOp = NoCall
  /\ steering = NoSteering
  /\ stateMachine = [states |-> << >>, currentState |-> Null, previousState |-> Null]
  /\ smCalls = << >>
  /\ smOutcome = "void"
  /\ smWarned = FALSE
  /\ smOp = [op |-> "new", name |-> Null,
             before |-> [states |-> << >>, currentState |-> Null, previousState |-> Null]]

FlankNext ==
  \/ \E player \in FlankSightings : BBUpdatePlayerInfo(player)
  \/ \E enemyId \in Agents, pos \in EnemySpots : BBCalculateFlankingPosition(enemyId, pos)
  \/ \E enemyId \in Agents : BBRemoveTargetAssignment(enemyId)

SpecFlank == FlankInit /\ [][FlankNext]_vars

\* The four places at the flank distance along the player's axes, each with the
\* class of its priority for a player facing the given way: 0 behind the
\* player, 1 at a side, 2 in front.
FlankCandidates(p, facing) ==
  { [x |-> p.x - flankingDistance, y |-> p.y, side |-> "left",
     rank |-> IF facing = "right" THEN 0 ELSE IF facing = "left" THEN 2 ELSE 1],
    [x |-> p.x + flankingDistance, y |-> p.y, side |-> "right",
     rank |-> IF facing = "left" THEN 0 ELSE IF facing = "right" THEN 2 ELSE 1],
    [x |-> p.x, y |-> p.y - flankingDistance, side |-> "top",
     rank |-> IF facing = "down" THEN 0 ELSE IF facing = "up" THEN 2 ELSE 1],
    [x |-> p.x, y |-> p.y + flankingDistance, side |-> "bottom",
     rank |-> IF facing = "up" THEN 0 ELSE IF facing = "down" THEN 2 ELSE 1] }

\* The candidate passes the spacing, bounds and safe-walkability checks.
PassesChecks(bb, c, enemyId, level) ==
  /\ ~_isPositionOccupied(bb, c, enemyId)
  /\ _isPositionValid(c, level)
  /\ _isPositionSafelyWalkable(c, level)

MaxInitialSize == 3
MaxPoolSize == 3

\* constructor(factory, initialSize, maxSize); the objects the factory makes
\* are numbered in the order of creation.
NewObjectPool(initialSize, maxSize) ==
  [pool |-> [i \in 1..initialSize |-> i], active |-> << >>, maxSize |-> maxSize,
   created |-> initialSize]

\* get(): the pool after the call and the object returned.
poolGet(p) ==
  IF Len(p.pool) > 0
  THEN [p |-> [p EXCEPT !.pool = SubSeq(@, 1, Len(@) - 1),
                        !.active = Append(@, p.pool[Len(p.pool)])],
        result |-> p.pool[Len(p.pool)]]
  ELSE IF Len(p.active) < p.maxSize
  THEN [p |-> [p EXCEPT !.created = @ + 1, !.active = Append(@, p.created + 1)],
        result |-> p.created + 1]
  ELSE [p |-> [p EXCEPT !.active = Append(Tail(@), Head(@))], result |-> Head(p.active)]

\* release(obj)
poolRelease(p, obj) ==
  IF \E i \in 1..Len(p.active) : p.active[i] = obj
  THEN LET index == CHOOSE i \in 1..Len(p.active) :
                      p.active[i] = obj /\ \A j \in 1..(i - 1) : p.active[j] # obj
       IN  [p EXCEPT !.active = SubSeq(@, 1, index - 1) \o SubSeq(@, index + 1, Len(@)),
                     !.pool = Append(@, obj)]
  ELSE p

\* clear(): the pool forgets every object, so the numbering starts again; an
\* object made before is a foreign one from now on.
poolClear(p) == [p EXCEPT !.pool = << >>, !.active = << >>, !.created = 0]

PoolApply(p, op, arg, result) ==
  /\ objectPool' = p
  /\ poolOp' = [op |-> op, arg |-> arg, result |-> result, before |-> objectPool]
  /\ UNCHANGED notPoolVars

PoolGet == PoolApply(poolGet(objectPool).p, "get", 0, poolGet(objectPool).result)

\* release of an object the factory made, or of a foreign one (0).
PoolRelease(obj) == PoolApply(poolRelease(objectPool, obj), "release", obj, 0)

PoolClear == PoolApply(poolClear(objectPool), "clear", 0, 0)

PoolInit ==
  /\ \E initialSize \in 0..MaxInitialSize, maxSize \in 1..MaxPoolSize :
       objectPool = NewObjectPool(initialSize, maxSize)
  /\ poolOp = NoCall
  /\ steering = NoSteering
  /\ stateMachine = NewStateMachine
  /\ smCalls = << >>
  /\ smOutcome = "void"
  /\ smWarned = FALSE
  /\ smOp = [op |-> "new", name |-> Null, before |-> NewStateMachine]
  /\ fpMap = << >>
  /\ fpStart = [x |-> 0, y |-> 0]
  /\ fpGoal = [x |-> 0, y |-> 0]
  /\ openList = << >>
  /\ closedList = {}
  /\ fpResult = NullPath
  /\ fpPc = "idle"
  /\ currentPath = NullPath
  /\ scene = NoScene
  /\ blackboard = NoBlackboard
  /\ bbOp = NoCall
  /\ enemies = NoEnemies

PoolNext ==
  \/ PoolGet
  \/ \E obj \in 0..objectPool.created : PoolRelease(obj)
  \/ PoolClear

SpecPool == PoolInit /\ [][PoolNext]_vars

C24_SlotGrantedOnlyBelowLimit ==
  bbOp.op = "calculateFlankingPosition" /\ bbOp.result # NoPosition
    => Cardinality(DOMAIN bbOp.before.flankingPositions \ {bbOp.enemyId}) < maxFlankingEnemies

\* C25: any two flanking slots reserved by different agents are at least
\* minDistanceBetweenEnemies apart, in whatever order the agents reserve,
\* reserve again and are removed and wherever the player is seen in between,
\* slots found by the search around a rejected candidate included.
C25_SlotsKeepMinimumSpacing ==
  \A a \in DOMAIN blackboard.flankingPositions, b \in DOMAIN blackboard.flankingPositions :
    a # b => DistanceSq(blackboard.flankingPositions[a].x, blackboard.flankingPositions[a].y,
                        blackboard.flankingPositions[b].x, blackboard.flankingPositions[b].y)
               >= minDistanceBetweenEnemies * minDistanceBetweenEnemies

\* An agent is given a slot while a candidate of its call lies closer than the
\* minimum spacing to, but not on, the slot another agent reserved before the
\* player moved.
C25_Witness ==
  /\ bbOp.op = "calculateFlankingPosition"
  /\ bbOp.result # NoPosition
  /\ bbOp.enemyId \in DOMAIN blackboard.flankingPositions
  /\ \E other \in DOMAIN bbOp.before.flankingPositions \ {bbOp.enemyId} :
       \E c \in FlankCandidates(bbOp.before.playerLastKnownPosition,
                                bbOp.before.playerDirection) :
         LET slot == bbOp.before.flankingPositions[other]
             dSq == DistanceSq(c.x, c.y, slot.x, slot.y)
         IN  dSq > 0 /\ dSq < minDistanceBetweenEnemies * minDistanceBetweenEnemies

(***************************************************************************)
(* The flanking slot and the attacking set in the game loop                *)
(***************************************************************************)
\* The controller of enemy id is chasing in flanking mode less than the reach
\* threshold away from its flanking target.
AtFlankingTarget(id) ==
  /\ enemies[id].status = "active"
  /\ enemies[id].aiController
  /\ ~enemies[id].isFrozen
  /\ enemies[id].currentState = "chase"
  /\ enemies[id].isFlankingMode
  /\ enemies[id].flankingTarget # NoPosition
  /\ DistanceSq(enemies[id].x, enemies[id].y,
                enemies[id].flankingTarget.x, enemies[id].flankingTarget.y) < 30 * 30

CanPlaceFlankSlot(bb, id, level) ==
  /\ bb # NoBlackboard
  /\ canJoinFlanking(bb)
  /\ calculateFlankingPosition(bb, id, Pos(enemies[id].x, enemies[id].y), level).result
       # NoPosition

\* The controller of enemy id chases the player without flanking.
ChasesPlayerWithoutFlanking(id) ==
  /\ enemies[id].status = "active"
  /\ enemies[id].aiController
  /\ ~enemies[id].isFrozen
  /\ enemies[id].currentState = "chase"
  /\ enemies[id].currentTarget = "player"
  /\ ~enemies[id].isFlankingMode

AttackingAgents ==
  IF blackboard = NoBlackboard THEN {} ELSE blackboard.attackingEnemies

DIRECTION_CHANGE_COOLDOWN == 500
RANDOM_DIRECTION_INTERVAL == 3000
RANDOM_DIRECTION_CHANCE == 30
STUCK_DISTANCE == 1
STUCK_FRAMES == 60
ALIGN_TOLERANCE == 25

\* ['up', 'down', 'left', 'right'] without dir, in the order filter() keeps.
OtherDirections(dir) ==
  CASE dir = "up" -> <<"down", "left", "right">>
    [] dir = "down" -> <<"up", "left", "right">>
    [] dir = "left" -> <<"up", "down", "right">>
    [] OTHER -> <<"up", "down", "left">>

\* What is remembered of the times at which something happened: the last
\* time and its distance from the time before.
NoTimes == [count |-> 0, last |-> 0, gap |-> 0]
Remember(times, now) ==
  [count |-> IF times.count = 0 THEN 1 ELSE 2, last |-> now,
   gap |-> IF times.count = 0 THEN 0 ELSE now - times.last]

\* The steering fields the constructor of EnemyAI sets for a tank at (x, y);
\* changes and evaluations remember when the desired direction last changed
\* and when _evaluateState last ran; timers are the times at which the pending
\* delayedCall timers of Tank.setFrozen fire, frozenUntil the latest deadline
\* of the freezes applied so far.
NewSteering(x, y) ==
  [ desiredDirection |-> "down", lastDirectionChange |-> 0,
    lastRandomDirectionChange |-> 0, stuckCounter |-> 0,
    lastPosition |-> Pos(x, y), stillRun |-> 0,
    changes |-> NoTimes, evaluations |-> NoTimes,
    timers |-> {}, frozenUntil |-> 0 ]

\* this.desiredDirection = dir; this.lastDirectionChange = now
setDesiredDirection(s, dir, now) ==
  [s EXCEPT !.desiredDirection = dir, !.lastDirectionChange = now,
            !.changes = IF dir # s.desiredDirection THEN Remember(@, now) ELSE @]

\* _alignToTarget(target, currentTime)
_alignToTarget(s, ai, target, now) ==
  LET dx == target.x - ai.x
      dy == target.y - ai.y
      newDir == IF Abs(dx) < ALIGN_TOLERANCE THEN (IF dy > 0 THEN "down" ELSE "up")
                ELSE IF Abs(dy) < ALIGN_TOLERANCE THEN (IF dx > 0 THEN "right" ELSE "left")
                ELSE s.desiredDirection
  IN  IF newDir # s.desiredDirection THEN setDesiredDirection(s, newDir, now) ELSE s

\* _setDirectionTowardsTarget(target, currentTime); 1.2 is kept as 12 / 10.
_setDirectionTowardsTarget(s, ai, target, now) ==
  LET dx == target.x - ai.x
      dy == target.y - ai.y
      newDir == IF 10 * Abs(dx) > 12 * Abs(dy) THEN (IF dx > 0 THEN "right" ELSE "left")
                ELSE IF 10 * Abs(dy) > 12 * Abs(dx) THEN (IF dy > 0 THEN "down" ELSE "up")
                ELSE s.desiredDirection
  IN  IF newDir # s.desiredDirection THEN setDesiredDirection(s, newDir, now) ELSE s

\* _setDirectionAwayFromTarget(target, currentTime)
_setDirectionAwayFromTarget(s, ai, target, now) ==
  LET dx == target.x - ai.x
      dy == target.y - ai.y
      newDir == IF 10 * Abs(dx) > 12 * Abs(dy) THEN (IF dx > 0 THEN "left" ELSE "right")
                ELSE IF 10 * Abs(dy) > 12 * Abs(dx) THEN (IF dy > 0 THEN "up" ELSE "down")
                ELSE s.desiredDirection
  IN  IF newDir # s.desiredDirection THEN setDesiredDirection(s, newDir, now) ELSE s

\* _updateDesiredDirection(currentTime); ai holds the tank's position and the
\* controller's state and target.
_updateDesiredDirection(s, ai, sc, now) ==
  LET target == _getCurrentTarget(ai, sc)
  IN  IF target = NoTank THEN s
      ELSE IF now - s.lastDirectionChange < DIRECTION_CHANGE_COOLDOWN THEN s
      ELSE IF ai.currentState = "attack"
              /\ DistanceSq(ai.x, ai.y, target.x, target.y) < ATTACK_RANGE * ATTACK_RANGE
      THEN _alignToTarget(s, ai, target, now)
      ELSE IF ai.currentState = "chase" THEN _setDirectionTowardsTarget(s, ai, target, now)
      ELSE IF ai.currentState = "retreat" THEN _setDirectionAwayFromTarget(s, ai, target, now)
      ELSE s

\* _setRandomDirection(currentTime); pick is the index GetRandom draws.
_setRandomDirection(s, now, pick) ==
  setDesiredDirection(s, OtherDirections(s.desiredDirection)[pick], now)

\* The periodic random override of update(); roll is Math.random() in
\* hundredths.
randomOverride(s, now, roll, pick) ==
  IF now - s.lastRandomDirectionChange > RANDOM_DIRECTION_INTERVAL
  THEN [(IF roll < RANDOM_DIRECTION_CHANCE THEN _setRandomDirection(s, now, pick) ELSE s)
          EXCEPT !.lastRandomDirectionChange = now]
  ELSE s

\* _checkIfStuck() that turns only when the counter has passed 60.
_checkIfStuckAfterSixty(s, ai, now, pick) ==
  LET still == DistanceSq(ai.x, ai.y, s.lastPosition.x, s.lastPosition.y)
                 < STUCK_DISTANCE * STUCK_DISTANCE
      counted == IF ~still THEN [s EXCEPT !.stuckCounter = 0]
                 ELSE IF s.stuckCounter + 1 > STUCK_FRAMES
                 THEN [setDesiredDirection(s, OtherDirections(s.desiredDirection)[pick], now)
                         EXCEPT !.stuckCounter = 0]
                 ELSE [s EXCEPT !.stuckCounter = @ + 1]
  IN  [counted EXCEPT !.lastPosition = Pos(ai.x, ai.y),
                      !.stillRun = IF still THEN @ + 1 ELSE 0]

\* _checkIfStuck(); stillRun counts the consecutive ticks with a displacement
\* below the threshold, whatever the code does with them.
_checkIfStuck(s, ai, now, pick) ==
  LET still == DistanceSq(ai.x, ai.y, s.lastPosition.x, s.lastPosition.y)
                 < STUCK_DISTANCE * STUCK_DISTANCE
      counted == IF ~still THEN [s EXCEPT !.stuckCounter = 0]
                 ELSE IF s.stuckCounter + 1 >= STUCK_FRAMES
                 THEN [setDesiredDirection(s, OtherDirections(s.desiredDirection)[pick], now)
                         EXCEPT !.stuckCounter = 0]
                 ELSE [s EXCEPT !.stuckCounter = @ + 1]
  IN  [counted EXCEPT !.lastPosition = Pos(ai.x, ai.y),
                      !.stillRun = IF still THEN @ + 1 ELSE 0]

\* The part of update(delta) after the evaluation: steering, random override
\* and stuck check; ai is the controller after the evaluation, srnd the random
\* values drawn.
steer(s, ai, sc, srnd) ==
  _checkIfStuck(randomOverride(_updateDesiredDirection(s, ai, sc, sc.time),
                               sc.time, srnd.roll, srnd.pick),
                ai, sc.time, srnd.stuckPick)

\* onWallHit(); pick is the index GetRandom draws among the two directions
\* perpendicular to the desired one.
onWallHit(s, now, pick) ==
  IF now - s.lastDirectionChange < DIRECTION_CHANGE_COOLDOWN THEN s
  ELSE setDesiredDirection(s,
         (IF s.desiredDirection \in {"up", "down"} THEN <<"left", "right">>
          ELSE <<"up", "down">>)[pick],
         now)

(***************************************************************************)
(* SpecSteer: one enemy of a scene without blackboard, its evaluations and *)
(* its steering while the clock runs                                       *)
(***************************************************************************)
TheEnemy == SpawnOrder[1]

\* The frames that are looked at lie 250 or 2000 ms apart.
SteerDeltas == {250, 2000}
MaxSteerTime == 4500

\* The random values of the steering of one update.
SteerDraws == {[roll |-> r, pick |-> 1, stuckPick |-> 2] : r \in {10, 90}}

\* update(delta) of the controller with its steering: the evaluation, then
\* the steering; an evaluation is remembered with its time.
aiUpdateSteered(s, st, after, sc, srnd) ==
  [st |-> after,
   s |-> steer([s EXCEPT !.evaluations =
                  IF after.ai.lastStateChange # st.ai.lastStateChange
                  THEN Remember(@, sc.time) ELSE @],
               after.ai, sc, srnd)]

SteerApply(sc, r) ==
  /\ scene' = sc
  /\ enemies' = EndTick([enemies EXCEPT ![TheEnemy] = r.st.ai])
  /\ blackboard' = r.st.bb
  /\ steering' = r.s
  /\ UNCHANGED notSteerVars

\* The clock of the scene has advanced to now: the delayedCall timers that are
\* due fire, and each unfreezes the tank if it is still active.
timersFire(s, tank, now) ==
  LET due == {t \in s.timers : t <= now}
  IN  [s |-> [s EXCEPT !.timers = @ \ due],
       ai |-> IF due # {} /\ tank.status = "active" THEN [tank EXCEPT !.isFrozen = FALSE]
              ELSE tank]

\* EnemyTank.update(time, delta): the controller is updated unless the tank is
\* frozen.
enemyTankUpdate(fired, bb, sc, rnd, srnd) ==
  IF fired.ai.aiController /\ fired.ai.status = "active" /\ ~fired.ai.isFrozen
  THEN aiUpdateSteered(fired.s, [ai |-> fired.ai, bb |-> bb],
                       aiUpdate([ai |-> fired.ai, bb |-> bb], TheEnemy, sc, rnd), sc, srnd)
  ELSE [st |-> [ai |-> fired.ai, bb |-> bb], s |-> fired.s]

\* One frame: the clock has advanced by delta, the timers that are due have
\* fired, then GameScene.update updates the enemy.
SteerFrame(delta, maxTime, rnd, srnd) ==
  /\ scene.time + delta <= maxTime
  /\ enemies[TheEnemy].status = "active"
  /\ LET sc == [scene EXCEPT !.time = @ + delta]
     IN  SteerApply(sc, enemyTankUpdate(timersFire(steering, enemies[TheEnemy], sc.time),
                                        blackboard, sc, rnd, srnd))

\* The physics step has moved the tank.
SteerTankMoved(spot) ==
  /\ enemies[TheEnemy].status = "active"
  /\ Pos(enemies[TheEnemy].x, enemies[TheEnemy].y) # spot
  /\ enemies' = [enemies EXCEPT ![TheEnemy].x = spot.x, ![TheEnemy].y = spot.y]
  /\ UNCHANGED <<scene, blackboard, steering>>
  /\ UNCHANGED notSteerVars

\* The physics step reports a wall contact of the tank: onWallHit().
SteerWallHit(pick) ==
  /\ enemies[TheEnemy].status = "active"
  /\ steering' = onWallHit(steering, scene.time, pick)
  /\ steering' # steering
  /\ UNCHANGED <<scene, blackboard, enemies>>
  /\ UNCHANGED notSteerVars

\* A bullet hits the enemy.
SteerEnemyHit ==
  /\ enemies[TheEnemy].status = "active"
  /\ enemies' = [enemies EXCEPT ![TheEnemy] = takeDamage(@, 1)]
  /\ UNCHANGED <<scene, blackboard, steering>>
  /\ UNCHANGED notSteerVars

\* The first enemy of the level has just been spawned.
SteerInit ==
  /\ scene = [time |-> 0, levelData |-> NoLevel, player |-> ThePlayer, base |-> TheBase]
  /\ \E spot \in SpawnSpots, rnd \in RandomDraws(0) :
       enemies = [i \in {TheEnemy} |->
                    NewEnemy("BASIC", spot, TheEnemy, NoBlackboard, scene, rnd).ai]
  /\ blackboard = NoBlackboard
  /\ bbOp = NoCall
  /\ steering = NewSteering(enemies[TheEnemy].x, enemies[TheEnemy].y)
  /\ fpMap = << >>
  /\ fpStart = [x |-> 0, y |-> 0]
  /\ fpGoal = [x |-> 0, y |-> 0]
  /\ openList = << >>
  /\ closedList = {}
  /\ fpResult = NullPath
  /\ fpPc = "idle"
  /\ currentPath = NullPath
  /\ objectPool = NoPool
  /\ poolOp = NoCall
  /\ stateMachine = [states |-> << >>, currentState |-> Null, previousState |-> Null]
  /\ smCalls = << >>
  /\ smOutcome = "void"
  /\ smWarned = FALSE
  /\ smOp = [op |-> "new", name |-> Null,
             before |-> [states |-> << >>, currentState |-> Null, previousState |-> Null]]

SteerNext ==
  \/ \E delta \in SteerDeltas, rnd \in RandomDraws(0), srnd \in SteerDraws :
       SteerFrame(delta, MaxSteerTime, rnd, srnd)
  \/ \E spot \in TankSpots : SteerTankMoved(spot)
  \/ \E pick \in 1..2 : SteerWallHit(pick)
  \/ SteerEnemyHit

SpecSteer == SteerInit /\ [][SteerNext]_vars

\* C31: two changes of an agent's desired direction are never less than
\* 500 ms apart, whichever source requests them.
C31_DirectionChangesKeepCooldown ==
  steering # NoSteering /\ steering.changes.count = 2
    => steering.changes.gap >= 500

\* C33: the controller evaluates only when more than 2000 ms have passed since
\* its previous evaluation and restarts the cooldown when it does: two
\* evaluations of the agent are more than 2000 ms apart.
C33_EvaluationsKeepCooldown ==
  steering # NoSteering /\ enemies[TheEnemy].status = "active"
    => /\ steering.evaluations.count = 2 => steering.evaluations.gap > 2000
       /\ steering.evaluations.count >= 1
            => enemies[TheEnemy].lastStateChange = steering.evaluations.last

\* The controller has evaluated twice.
C33_Witness ==
  /\ steering # NoSteering
  /\ enemies[TheEnemy].status = "active"
  /\ steering.evaluations.count = 2
  /\ steering.evaluations.last = scene.time

(***************************************************************************)
(* SpecStuck: the stuck check of one patrolling enemy over the frames of   *)
(* its first second                                                        *)
(***************************************************************************)
\* One frame of 60 per second, in ms.
FrameDelta == 16
MaxStuckTicks == 65

\* The random values of one update: the direction the stuck check draws.
StuckDraws == {[roll |-> 90, pick |-> 1, stuckPick |-> p] : p \in {1, 3}}

\* The first enemy of the level has just been spawned.
StuckInit ==
  /\ scene = [time |-> 0, levelData |-> NoLevel, player |-> ThePlayer, base |-> TheBase]
  /\ \E spot \in SpawnSpots, rnd \in RandomDraws(0) :
       enemies = [i \in {TheEnemy} |->
                    NewEnemy("BASIC", spot, TheEnemy, NoBlackboard, scene, rnd).ai]
  /\ blackboard = NoBlackboard
  /\ bbOp = NoCall
  /\ steering = NewSteering(enemies[TheEnemy].x, enemies[TheEnemy].y)
  /\ fpMap = << >>
  /\ fpStart = [x |-> 0, y |-> 0]
  /\ fpGoal = [x |-> 0, y |-> 0]
  /\ openList = << >>
  /\ closedList = {}
  /\ fpResult = NullPath
  /\ fpPc = "idle"
  /\ currentPath = NullPath
  /\ objectPool = NoPool
  /\ poolOp = NoCall
  /\ stateMachine = [states |-> << >>, currentState |-> Null, previousState |-> Null]
  /\ smCalls = << >>
  /\ smOutcome = "void"
  /\ smWarned = FALSE
  /\ smOp = [op |-> "new", name |-> Null,
             before |-> [states |-> << >>, currentState |-> Null, previousState |-> Null]]

StuckNext ==
  \/ \E rnd \in RandomDraws(0), srnd \in StuckDraws :
       SteerFrame(FrameDelta, MaxStuckTicks * FrameDelta, rnd, srnd)
  \/ \E spot \in TankSpots : SteerTankMoved(spot)

SpecStuck == StuckInit /\ [][StuckNext]_vars

\* C32: on the 60th consecutive tick with a displacement below the threshold
\* the desired direction changes to a different one and the stall counter is
\* reset; a tick with a displacement at or above the threshold resets the
\* counter; after a tick the counter is within 0..59.
C32_StuckForSixtyTicksTurns ==
  [][scene'.time # scene.time /\ ~enemies[TheEnemy].isFrozen
       => /\ steering'.stuckCounter \in 0..59
          /\ steering'.stillRun = 0 => steering'.stuckCounter = 0
          /\ steering'.stillRun = 60
               => /\ steering'.desiredDirection # steering.desiredDirection
                  /\ steering'.changes.last = scene'.time
                  /\ steering'.stuckCounter = 0]_vars

\* The enemy has just stood still for the 60th tick in a row.
C32_Witness ==
  /\ steering # NoSteering
  /\ steering.stillRun = 60
  /\ steering.changes.count >= 1
  /\ steering.changes.last = scene.time

(***************************************************************************)
(* SpecTarget: one enemy and its target while player and base are          *)
(* destroyed in any order                                                  *)
(***************************************************************************)
\* Base.destroy(): isDestroyed is set.
BaseDestroyed ==
  /\ ~scene.base.isDestroyed
  /\ scene' = [scene EXCEPT !.base.isDestroyed = TRUE]
  /\ UNCHANGED <<blackboard, enemies>>
  /\ UNCHANGED notSceneVars

TargetNext ==
  \/ \E spot \in SpawnSpots, rnd \in RandomDraws(PatrolPointCount) : SpawnNextEnemy(spot, rnd)
  \/ \E rnds \in [DOMAIN enemies -> RandomDraws(PatrolPointCount)] :
       \E generated \in GeneratedLists : Frame(rnds, generated)
  \/ \E id \in DOMAIN enemies, spot \in SoloSpots : TankMoved(id, spot)
  \/ PlayerDestroyed
  \/ BaseDestroyed

SpecTarget == SoloInit /\ [][TargetNext]_vars

\* C34: after an evaluation the controller's target is not a destroyed object:
\* with exactly one of player and base alive it is the alive one, with neither
\* alive the controller has no target and is in patrol.
C34_TargetAliveAfterEvaluation ==
  [][\A id \in DOMAIN enemies :
       Evaluates(id)
         => LET target == enemies'[id].currentTarget
                playerAlive == ~scene'.player.isDestroyed
                baseAlive == ~scene'.base.isDestroyed
            IN  /\ target = "player" => playerAlive
                /\ target = "base" => baseAlive
                /\ playerAlive /\ ~baseAlive => target = "player"
                /\ baseAlive /\ ~playerAlive => target = "base"
                /\ ~playerAlive /\ ~baseAlive
                     => target = Null /\ enemies'[id].currentState = "patrol"]_vars

\* The controller had a target and has been evaluated again with neither
\* player nor base alive.
C34_Witness ==
  \E id \in DOMAIN enemies :
    /\ enemies[id].status = "active"
    /\ enemies[id].lastStateChange = scene.time
    /\ scene.time = 2 * ClockStep
    /\ scene.player.isDestroyed
    /\ scene.base.isDestroyed
    /\ enemies[id].previousState \in {"chase", "attack"}
    /\ enemies[id].currentState = "patrol"

(***************************************************************************)
(* SpecFreeze: one enemy while the player picks up clock power-ups          *)
(***************************************************************************)
\* POWERUP_TYPES.CLOCK.duration
CLOCK_DURATION == 8000

\* The frames that are looked at lie 4000 ms apart.
FreezeDelta == 4000
MaxFreezeTime == 16000

\* Tank.setFrozen(duration) at time now: the tank is frozen and a delayedCall
\* timer is started.
setFrozen(s, tank, duration, now) ==
  [s |-> [s EXCEPT !.timers = @ \cup {now + duration},
                   !.frozenUntil = Max(@, now + duration)],
   ai |-> [tank EXCEPT !.isFrozen = TRUE]]

\* GameScene.freezeAllEnemies(duration)
FreezeAllEnemies(duration) ==
  /\ enemies[TheEnemy].status = "active"
  /\ LET r == setFrozen(steering, enemies[TheEnemy], duration, scene.time)
     IN  /\ steering' = r.s
         /\ enemies' = [enemies EXCEPT ![TheEnemy] = r.ai]
  /\ steering' # steering
  /\ UNCHANGED <<scene, blackboard>>
  /\ UNCHANGED notSteerVars

\* The first enemy of the level has just been spawned.
FreezeInit ==
  /\ scene = [time |-> 0, levelData |-> NoLevel, player |-> ThePlayer, base |-> TheBase]
  /\ \E spot \in SpawnSpots, rnd \in RandomDraws(0) :
       enemies = [i \in {TheEnemy} |->
                    NewEnemy("BASIC", spot, TheEnemy, NoBlackboard, scene, rnd).ai]
  /\ blackboard = NoBlackboard
  /\ bbOp = NoCall
  /\ steering = NewSteering(enemies[TheEnemy].x, enemies[TheEnemy].y)
  /\ fpMap = << >>
  /\ fpStart = [x |-> 0, y |-> 0]
  /\ fpGoal = [x |-> 0, y |-> 0]
  /\ openList = << >>
  /\ closedList = {}
  /\ fpResult = NullPath
  /\ fpPc = "idle"
  /\ currentPath = NullPath
  /\ objectPool = NoPool
  /\ poolOp = NoCall
  /\ stateMachine = [states |-> << >>, currentState |-> Null, previousState |-> Null]
  /\ smCalls = << >>
  /\ smOutcome = "void"
  /\ smWarned = FALSE
  /\ smOp = [op |-> "new", name |-> Null,
             before |-> [states |-> << >>, currentState |-> Null, previousState |-> Null]]

FreezeNext ==
  \/ \E rnd \in RandomDraws(0), srnd \in SteerDraws :
       SteerFrame(FreezeDelta, MaxFreezeTime, rnd, srnd)
  \/ FreezeAllEnemies(CLOCK_DURATION)
  \/ \E spot \in TankSpots : SteerTankMoved(spot)

SpecFreeze == FreezeInit /\ [][FreezeNext]_vars

\* C35: a freeze applied at time t with duration d keeps the agent frozen at
\* every time before t + d: with overlapping freezes the agent stays frozen
\* until the latest deadline.
C35_FrozenUntilLatestDeadline ==
  steering # NoSteering /\ enemies[TheEnemy].status = "active"
                        /\ scene.time < steering.frozenUntil
    => enemies[TheEnemy].isFrozen

(***************************************************************************)
(* SpecUpdate: the per-frame update of one blackboard while the player of  *)
(* the scene changes and enemies come and go                               *)
(***************************************************************************)
\* The scene's player is upgraded, loses lives or is destroyed.
ScenePlayerChanged(player) ==
  /\ scene.player # player
  /\ scene' = [scene EXCEPT !.player = player]
  /\ bbOp' = NoCall
  /\ UNCHANGED blackboard
  /\ UNCHANGED notBbVars

UpdateInit ==
  /\ scene = [time |-> 0, levelData |-> NoLevel, player |-> ThePlayer, base |-> TheBase]
  /\ blackboard = NewBlackboard
  /\ bbOp = NoCall
  /\ enemies = NoEnemies
  /\ fpMap = << >>
  /\ fpStart = [x |-> 0, y |-> 0]
  /\ fpGoal = [x |-> 0, y |-> 0]
  /\ openList = << >>
  /\ closedList = {}
  /\ fpResult = NullPath
  /\ fpPc = "idle"
  /\ currentPath = NullPath
  /\ objectPool = NoPool
  /\ poolOp = NoCall
  /\ steering = NoSteering
  /\ stateMachine = [states |-> << >>, currentState |-> Null, previousState |-> Null]
  /\ smCalls = << >>
  /\ smOutcome = "void"
  /\ smWarned = FALSE
  /\ smOp = [op |-> "new", name |-> Null,
             before |-> [states |-> << >>, currentState |-> Null, previousState |-> Null]]

UpdateNext ==
  \/ \E player \in ThreatPlayers : ScenePlayerChanged(player)
  \/ \E enemyId \in FlankCallers, pos \in EnemySpots : BBUpdateEnemyPosition(enemyId, pos)
  \/ \E enemyId \in FlankCallers : BBRemoveTargetAssignment(enemyId)
  \/ \E generated \in GeneratedLists : BBUpdate(generated)

SpecUpdate == UpdateInit /\ [][UpdateNext]_vars

\* C36: after each update() the stored threat level is the one
\* calculateThreatLevel gives for the scene's current player and the current
\* number of active agents: base 50, +10 per upgrade level, +5 per life, +20
\* with fewer than 2 agents, clamped to 0..100, and 0 without a live player.
C36_ThreatFollowsSceneOnUpdate ==
  bbOp.op = "update"
    => blackboard.threatLevel
         = IF scene.player = NoTank \/ scene.player.isDestroyed THEN 0
           ELSE Min(100, Max(0, RawThreat(scene.player,
                                          Cardinality(DOMAIN blackboard.enemyPositions))))

(***************************************************************************)
(* The patrol point a caller is given                                      *)
(***************************************************************************)
\* The pool indices that no agent held before the last call.
UnassignedBefore ==
  {i \in 0..(Len(bbOp.before.patrolPoints) - 1) :
     i \notin MapValues(bbOp.before.assignedPatrolPoints)}

\* C37: while at least one pool point is assigned to no agent,
\* assignPatrolPoint records for the caller an index of the pool that no other
\* agent holds, and returns the point at that index.
C37_AssignsUnassignedPoint ==
  bbOp.op = "assignPatrolPoint" /\ UnassignedBefore # {}
    => /\ blackboard.assignedPatrolPoints[bbOp.enemyId] \in UnassignedBefore
       /\ \A other \in DOMAIN blackboard.assignedPatrolPoints :
            other # bbOp.enemyId
              => blackboard.assignedPatrolPoints[other]
                   # blackboard.assignedPatrolPoints[bbOp.enemyId]
       /\ bbOp.result
            = blackboard.patrolPoints[blackboard.assignedPatrolPoints[bbOp.enemyId] + 1]

\* A point has been assigned while other agents held points and one was free.
C37_Witness ==
  /\ bbOp.op = "assignPatrolPoint"
  /\ UnassignedBefore # {}
  /\ Cardinality(DOMAIN bbOp.before.assignedPatrolPoints \ {bbOp.enemyId}) >= 2

(***************************************************************************)
(* The registration of the controllers                                     *)
(***************************************************************************)
\* C38: every controller the scene has created is registered with the
\* scene's blackboard: while the agent lives the blackboard holds a target
\* assignment and a position entry for its id.
C38_EveryControllerRegistered ==
  \A id \in DOMAIN enemies :
    enemies[id].status = "active" /\ enemies[id].aiController
      => /\ blackboard # NoBlackboard
         /\ id \in DOMAIN blackboard.assignedTargets
         /\ id \in DOMAIN blackboard.enemyPositions

(***************************************************************************)
(* What removing an agent leaves alone                                     *)
(***************************************************************************)
\* The entries of blackboard bb that are not keyed by enemyId.
EntriesOfOthers(bb, enemyId) ==
  [bb EXCEPT !.assignedTargets = MapDelete(@, enemyId),
             !.flankingPositions = MapDelete(@, enemyId),
             !.assignedPatrolPoints = MapDelete(@, enemyId),
             !.enemyPositions = MapDelete(@, enemyId),
             !.attackingEnemies = {a \in @ : a # enemyId}]

\* C39: removeTargetAssignment(agentId) changes only entries keyed by agentId:
\* the entries of every other agent, the player knowledge, the threat score
\* and the patrol pool are as before, and for an id without entries (a second
\* call included) nothing changes.
C39_RemoveTouchesOnlyItsAgent ==
  bbOp.op = "removeTargetAssignment"
    => /\ EntriesOfOthers(blackboard, bbOp.enemyId) = EntriesOfOthers(bbOp.before, bbOp.enemyId)
       /\ \A other \in Agents \ {bbOp.enemyId} :
            HeldBy(blackboard, other) = HeldBy(bbOp.before, other)
       /\ HeldBy(bbOp.before, bbOp.enemyId) = {} => blackboard = bbOp.before

\* An agent with entries has been removed while another agent was attacking
\* and held a target and a position.
C39_Witness ==
  /\ bbOp.op = "removeTargetAssignment"
  /\ HeldBy(bbOp.before, bbOp.enemyId) # {}
  /\ \E other \in Agents \ {bbOp.enemyId} :
       {"assignedTargets", "enemyPositions", "attackingEnemies"} \subseteq HeldBy(blackboard, other)

====
